---------------------------- MODULE Spec2Model ----------------------------
(***************************************************************************)
(* Verification model of the Excel -> CSV append-only pipeline:            *)
(*   cds_parser.topo_sort, fk_resolver.FKResolver, validator.DataValidator,*)
(*   transformer.RowTransformer, staging_engine.StagingEngine,             *)
(*   append_writer.AppendOnlyWriter and the commands of main.py.           *)
(*                                                                         *)
(* Cells are strings.  Python's None and '' are both the blank cell "".    *)
(* A CSV file is its sequence of lines (each a sequence of cells) plus a   *)
(* flag telling whether the last line is terminated by a newline.          *)
(***************************************************************************)
EXTENDS Naturals, Integers, Sequences, FiniteSets, TLC

VARIABLES
    mode,        \* which entry point is being exercised
    pc,          \* position of the running entry point
    \* ---- cds_parser.parse_cds, build_dependencies, topo_sort ----
    content,     \* the schema text: its annotations and entity blocks, in order
    parsed,      \* parse_cds's result, parsed['entities']
    deps,        \* the dependency dict passed to topo_sort
    incoming,    \* incoming[n]: dependencies of n not yet emitted
    outgoing,    \* outgoing[n]: dependents of n not yet released
    S,           \* the sorted ready list
    order,       \* the result list
    \* ---- files ----
    data,        \* data[e]: the persisted file CCTECH.DRS.ENTITIES-<e>.csv
    data0,       \* history: data at the start of the run
    staging,     \* staging[e]: the staging file <e>.csv
    backups,     \* backups[e]: the newest backup of e's persisted file
    \* ---- AppendOnlyWriter.append_all ----
    results,     \* staging results handed to append_all (entity -> result)
    todo,        \* the entities of the dict being iterated, in dict order
    cursor,      \* index in todo of the next entity
    appendResults, \* append_all's results dict
    preFile,     \* history: e's persisted file when append_entity(e) began
    afterAppend, \* history: e's persisted file when append_entity(e) succeeded
    invocations, \* number of append_all invocations started
    lastFail,    \* history: where the latest append_entity call was interrupted
    \* ---- RowTransformer.transform_entity ----
    ent,         \* the entity being transformed
    sheetConfig, \* its sheet configuration (mapping)
    excel,       \* the data rows of the sheet
    rowNum,      \* 1-based number of the next Excel row
    loop,        \* valid_rows, error_records, all_rows, key sets of the loop
    lastRow,     \* history: outcome of the latest transform_row call
    \* ---- StagingEngine.stage_all and main ----
    command,     \* sys.argv[1]
    passNum,     \* pass_num
    retry,       \* entities_with_fk_errors of the current pass
    stageCursor, \* index of the next entity to stage in the current pass
    useStaging,  \* the transformer in use was built with staging_dir
    cache,       \* FKResolver.cache of the transformer in use
    nextId,      \* number of the next identifier uuid4() returns
    errorsBefore,  \* total_errors_before of the current pass
    stageResults,  \* stage_all's results dict
    pass1Results,  \* history: the results dict at the end of pass 1
    stageLog,    \* history: the entities staged in each pass, how stage_all ended
    runs,        \* number of runs of main started on the workbook
    outcome      \* how main ended ("" while it runs)

topoVars == <<content, parsed, deps, incoming, outgoing, S, order>>
fileVars == <<data, data0, staging, backups>>
appendVars == <<results, todo, cursor, appendResults, preFile, afterAppend, invocations,
               lastFail>>
entityVars == <<ent, sheetConfig, excel, rowNum, loop, lastRow>>
pipeVars == <<command, passNum, retry, stageCursor, useStaging, cache, nextId, errorsBefore,
             stageResults, pass1Results, stageLog, runs, outcome>>
vars == <<mode, pc, topoVars, fileVars, appendVars, entityVars, pipeVars>>

(***************************************************************************)
(* Generic helpers                                                         *)
(***************************************************************************)
Range(s) == {s[i] : i \in DOMAIN s}

IndexOf(seq, x) == CHOOSE i \in DOMAIN seq : seq[i] = x

\* values of the variables an entry point does not use
IdleTopo ==
    /\ content = <<>> /\ parsed = <<>>
    /\ deps = <<>> /\ incoming = <<>> /\ outgoing = <<>> /\ S = <<>> /\ order = <<>>
IdleFiles ==
    /\ data = <<>> /\ data0 = <<>> /\ staging = <<>> /\ backups = <<>>
IdleAppend ==
    /\ results = <<>> /\ todo = <<>> /\ cursor = 0 /\ appendResults = <<>>
    /\ preFile = <<>> /\ afterAppend = <<>> /\ invocations = 0
    /\ lastFail = [at |-> "none", k |-> 0]
IdleEntity ==
    /\ ent = "" /\ sheetConfig = <<>> /\ excel = <<>> /\ rowNum = 0 /\ loop = <<>>
    /\ lastRow = <<>>
IdlePipe ==
    /\ command = "" /\ passNum = 0 /\ retry = <<>> /\ stageCursor = 0
    /\ useStaging = FALSE /\ cache = <<>> /\ nextId = 1 /\ errorsBefore = 0
    /\ stageResults = <<>> /\ pass1Results = <<>> /\ outcome = ""
    /\ stageLog = [passes |-> <<>>, ending |-> ""] /\ runs = 0

(***************************************************************************)
(* cds_parser.topo_sort                                                    *)
(***************************************************************************)
NumNodes == 3
AllNodeNames == <<"A", "B", "C", "D", "E">>
NodeNames == SubSeq(AllNodeNames, 1, NumNodes)
Nodes == Range(NodeNames)
\* Python compares the entity names as strings; the names are listed in
\* ascending lexical order, so the rank of a name is its index.
LexRank(n) == IndexOf(AllNodeNames, n)

TopoNodes(d) == DOMAIN d \cup UNION {d[k] : k \in DOMAIN d}

TopoIncoming(d) == [n \in TopoNodes(d) |-> IF n \in DOMAIN d THEN d[n] ELSE {}]
TopoOutgoing(d) == [n \in TopoNodes(d) |-> {m \in DOMAIN d : n \in d[m]}]

RECURSIVE SortedDescending(_)
\* a sort in descending order
SortedDescending(set) ==
    IF set = {} THEN <<>>
    ELSE LET m == CHOOSE x \in set : \A y \in set : LexRank(x) >= LexRank(y)
         IN  <<m>> \o SortedDescending(set \ {m})

RECURSIVE SortedList(_)
\* sorted(set) of entity names
SortedList(set) ==
    IF set = {} THEN <<>>
    ELSE LET m == CHOOSE x \in set : \A y \in set : LexRank(x) <= LexRank(y)
         IN  <<m>> \o SortedList(set \ {m})

\* lines 147-157: build incoming/outgoing, S = sorted nodes without incoming
TopoStart ==
    /\ mode = "topo" /\ pc = "topo_start"
    /\ incoming' = TopoIncoming(deps)
    /\ outgoing' = TopoOutgoing(deps)
    /\ S' = SortedList({n \in TopoNodes(deps) : TopoIncoming(deps)[n] = {}})
    /\ order' = <<>>
    /\ pc' = "topo_loop"
    /\ UNCHANGED <<mode, content, parsed, deps, fileVars, appendVars, entityVars, pipeVars>>

\* the set of nodes released when n is emitted (lines 161-166)
Released(n, inc, out) == {m \in out[n] : inc[m] \ {n} = {}}

\* one iteration of "while S" (lines 158-166)
TopoPop ==
    /\ mode = "topo" /\ pc = "topo_loop" /\ S # <<>>
    /\ LET n == Head(S)
       IN  /\ order' = Append(order, n)
           /\ incoming' = [m \in DOMAIN incoming |->
                              IF m \in outgoing[n] THEN incoming[m] \ {n}
                              ELSE incoming[m]]
           /\ outgoing' = [outgoing EXCEPT ![n] = {}]
           /\ S' = SortedList(Range(Tail(S)) \cup Released(n, incoming, outgoing))
    /\ UNCHANGED <<mode, pc, content, parsed, deps, fileVars, appendVars, entityVars,
                   pipeVars>>

\* lines 167-170: the nodes that never became ready, sorted, at the end
Remaining(d, ord) == SortedList(TopoNodes(d) \ Range(ord))

TopoFinish ==
    /\ mode = "topo" /\ pc = "topo_loop" /\ S = <<>>
    /\ order' = order \o Remaining(deps, order)
    /\ pc' = "topo_done"
    /\ UNCHANGED <<mode, content, parsed, deps, incoming, outgoing, S, fileVars, appendVars,
                   entityVars, pipeVars>>

\* the dicts build_dependencies can return: no entity depends on itself
TopoGraphs ==
    {d \in UNION {[K -> SUBSET Nodes] : K \in SUBSET Nodes \ {{}}} :
        \A k \in DOMAIN d : k \notin d[k]}

InitTopo ==
    /\ mode = "topo" /\ pc = "topo_start"
    /\ content = <<>> /\ parsed = <<>>
    /\ deps \in TopoGraphs
    /\ incoming = <<>> /\ outgoing = <<>> /\ S = <<>> /\ order = <<>>
    /\ IdleFiles /\ IdleAppend /\ IdleEntity /\ IdlePipe

NextTopo == TopoStart \/ TopoPop \/ TopoFinish

SpecTopo == InitTopo /\ [][NextTopo]_vars

(***************************************************************************)
(* cds_parser.parse_cds and build_dependencies                             *)
(***************************************************************************)
\* the schema text as the regular expressions see it: the matches of
\* CDS_UNIQUE_RE and CDS_ENTITY_RE in the order of their positions
UniqueItem(cons) == [kind |-> "unique", constraints |-> cons]
EntityItem(name, assocs, fields) ==
    [kind |-> "entity", name |-> name, associations |-> assocs, fields |-> fields]

\* lines 70-77: the constraints of the last annotation that ends before the
\* entity block starts
NearestUnique(text, p) ==
    LET before == {q \in 1..(p - 1) : text[q].kind = "unique"}
    IN  IF before = {} THEN <<>>
        ELSE text[CHOOSE q \in before : \A r \in before : r <= q].constraints

RECURSIVE ParseEntities(_, _)
\* lines 66-112: entities[name] = {...} for the first p items; a later block
\* of the same name replaces the earlier one
ParseEntities(text, p) ==
    IF p = 0 THEN <<>>
    ELSE IF text[p].kind = "entity"
         THEN (text[p].name :> [fields |-> text[p].fields,
                                associations |-> text[p].associations,
                                uniqueConstraints |-> NearestUnique(text, p)])
              @@ ParseEntities(text, p - 1)
         ELSE ParseEntities(text, p - 1)

\* parse_cds (lines 49-114), the entities of its result
ParseCds(text) == ParseEntities(text, Len(text))

\* fname[:-3] for the field names that end in _ID, "" for the others
BaseOfId(fname) ==
    CASE fname = "PARENT_ID" -> "PARENT"
      [] fname = "OWNER_ID" -> "OWNER"
      [] OTHER -> ""

\* lines 124-128: the targets of the associations, the entity itself left out
AssociationTargets(ename, edef) ==
    {edef.associations[i].target : i \in DOMAIN edef.associations} \ {ename, ""}

\* lines 130-141: the target of the first association named like the base
\* of a UUID field called <base>_ID
IdFieldTargets(ename, edef) ==
    {edef.associations[i].target :
        i \in {j \in DOMAIN edef.associations :
                 \E k \in DOMAIN edef.fields :
                    /\ BaseOfId(edef.fields[k].name) # ""
                    /\ edef.fields[k].type = "UUID"
                    /\ edef.associations[j].name = BaseOfId(edef.fields[k].name)
                    /\ \A h \in 1..(j - 1) :
                          edef.associations[h].name # edef.associations[j].name}}
    \ {ename, ""}

\* build_dependencies (lines 118-143), deps[ename] as a set
BuildDependencies(ents) ==
    [ename \in DOMAIN ents |->
        AssociationTargets(ename, ents[ename]) \cup IdFieldTargets(ename, ents[ename])]

(***************************************************************************)
(* Entry point: build_schema on a schema text (build_schema.py lines 44-51)*)
(***************************************************************************)
MaxItems == 3

CdsConstraints ==
    {<<[name |-> "uq1", columns |-> <<"NAME">>]>>,
     <<[name |-> "uq2", columns |-> <<"CODE", "NAME">>]>>}
CdsAssociations ==
    {<<>>} \cup {<<[name |-> "PARENT", target |-> t]>> : t \in {"A", "B", "X"}}
CdsFields ==
    {<<[name |-> "ID", type |-> "UUID", key |-> TRUE]>>,
     <<[name |-> "ID", type |-> "UUID", key |-> TRUE],
       [name |-> "PARENT_ID", type |-> "UUID", key |-> FALSE]>>}
CdsItems ==
    {UniqueItem(c) : c \in CdsConstraints}
    \cup {EntityItem(n, a, f) : n \in {"A", "B"}, a \in CdsAssociations, f \in CdsFields}
CdsTexts == UNION {[1..n -> CdsItems] : n \in 1..MaxItems}

InitCds ==
    /\ mode = "cds" /\ pc = "cds_parse"
    /\ content \in CdsTexts
    /\ parsed = <<>>
    /\ deps = <<>> /\ incoming = <<>> /\ outgoing = <<>> /\ S = <<>> /\ order = <<>>
    /\ IdleFiles /\ IdleAppend /\ IdleEntity /\ IdlePipe

\* build_schema line 45: parsed = parse_cds(content)
CdsParse ==
    /\ mode = "cds" /\ pc = "cds_parse"
    /\ parsed' = ParseCds(content)
    /\ pc' = "cds_deps"
    /\ UNCHANGED <<mode, content, deps, incoming, outgoing, S, order, fileVars, appendVars,
                   entityVars, pipeVars>>

\* build_schema line 50: deps = build_dependencies(parsed)
CdsDependencies ==
    /\ mode = "cds" /\ pc = "cds_deps"
    /\ deps' = BuildDependencies(parsed)
    /\ pc' = "cds_done"
    /\ UNCHANGED <<mode, content, parsed, incoming, outgoing, S, order, fileVars, appendVars,
                   entityVars, pipeVars>>

NextCds == CdsParse \/ CdsDependencies

SpecCds == InitCds /\ [][NextCds]_vars

\* ---- dependency relation of a graph ----
DependsOn(d, a, b) == a \in DOMAIN d /\ b \in d[a]

RECURSIVE ReachFrom(_, _, _)
\* nodes reachable from the set frontier along dependency edges
ReachFrom(d, seen, frontier) ==
    IF frontier = {} THEN seen
    ELSE LET nxt == UNION {IF n \in DOMAIN d THEN d[n] ELSE {} : n \in frontier}
         IN  ReachFrom(d, seen \cup nxt, nxt \ seen)

Reaches(d, a, b) == b \in ReachFrom(d, {}, {a})
OnCommonCycle(d, a, b) == Reaches(d, a, b) /\ Reaches(d, b, a)

Position(ord, n) == IndexOf(ord, n)


(***************************************************************************)
(* CSV files                                                               *)
(***************************************************************************)
NoFile == [exists |-> FALSE, lines |-> <<>>, nl |-> TRUE]
\* open(path, 'w'): the file exists and is empty
EmptyFile == [exists |-> TRUE, lines |-> <<>>, nl |-> TRUE]

\* dict.get(k, dflt)
Get(d, k, dflt) == IF k \in DOMAIN d THEN d[k] ELSE dflt

\* csv writer.writerow on a file opened for writing at its end: the cells
\* and a line terminator go after the last byte of the file.  When the last
\* line has no terminator the new cells continue that line.
AppendLine(f, line) ==
    IF f.lines = <<>> \/ f.nl
    THEN [exists |-> TRUE, lines |-> Append(f.lines, line), nl |-> TRUE]
    ELSE LET n == Len(f.lines)
             last == f.lines[n]
             joined == IF line = <<>> THEN last
                       ELSE SubSeq(last, 1, Len(last) - 1)
                            \o <<last[Len(last)] \o line[1]>> \o Tail(line)
         IN  [exists |-> TRUE, lines |-> [f.lines EXCEPT ![n] = joined], nl |-> TRUE]

RECURSIVE WriteLines(_, _)
WriteLines(f, ls) ==
    IF ls = <<>> THEN f ELSE WriteLines(AppendLine(f, Head(ls)), Tail(ls))

\* next(csv.reader(f)), [] on StopIteration
CsvHeader(f) == IF f.exists /\ Len(f.lines) > 0 THEN f.lines[1] ELSE <<>>

\* one csv.DictReader row: zip(fieldnames, cells), missing cells are None
RowDict(h, line) ==
    [c \in Range(h) |-> IF IndexOf(h, c) <= Len(line) THEN line[IndexOf(h, c)] ELSE ""]

NonEmptyLine(l) == l # <<>>

\* list(csv.DictReader(f)): the rows after the header, blank lines skipped
DictRows(f) ==
    IF ~f.exists \/ Len(f.lines) = 0 THEN <<>>
    ELSE LET body == SelectSeq(Tail(f.lines), NonEmptyLine)
         IN  [i \in 1..Len(body) |-> RowDict(f.lines[1], body[i])]

(***************************************************************************)
(* append_writer.AppendOnlyWriter                                          *)
(***************************************************************************)
\* out_row = {h: row.get(h, '') for h in headers}; DictWriter writes it in
\* the order of fieldnames = headers
OutLine(headers, row) == [i \in 1..Len(headers) |-> Get(row, headers[i], "")]

\* rows_to_append: the csv rows of the staged file after its header
RowsToAppend(staged) == Len(staged.lines) - 1

\* the header the rows are written under (lines 94-97, 103-106)
WriteHeaders(target, staged) ==
    IF target.exists THEN CsvHeader(target) ELSE CsvHeader(staged)

\* the target after k staged rows have been written (lines 94-113)
Written(target, staged, k) ==
    LET h == WriteHeaders(target, staged)
        rows == DictRows(staged)
        out == [i \in 1..k |-> OutLine(h, rows[i])]
    IN  IF target.exists THEN WriteLines(target, out)
        ELSE WriteLines(AppendLine(EmptyFile, h), out)

\* where the exception, if any, is raised inside the try block
NoFailure == [at |-> "none", k |-> 0]
FailPoints(target, staged) ==
    {NoFailure, [at |-> "open", k |-> 0]}
    \cup (IF target.exists THEN {} ELSE {[at |-> "header", k |-> 0]})
    \cup {[at |-> "rows", k |-> k] : k \in 0..Len(DictRows(staged))}

\* the target when the exception is raised
Partial(target, staged, fail) ==
    CASE fail.at = "open" -> target
      [] fail.at = "header" -> EmptyFile
      [] OTHER -> Written(target, staged, fail.k)

\* a writer that leaves the interrupted file as it is
NoRestore(partial, backupTaken, backup) == partial

\* lines 122-125: shutil.copy2(backup_path, csv_path) when there is a backup
RestoreOnError(partial, backupTaken, backup) ==
    IF backupTaken THEN backup ELSE partial

\* a writer that copies the target to the backup directory after the write
AppendThenBackup(target, staged, fail) ==
    IF fail.at = "none"
    THEN [file |-> Written(target, staged, Len(DictRows(staged))),
          backupTaken |-> target.exists,
          backup |-> IF target.exists THEN Written(target, staged, Len(DictRows(staged)))
                     ELSE NoFile,
          appended |-> RowsToAppend(staged), error |-> ""]
    ELSE [file |-> Partial(target, staged, fail),
          backupTaken |-> target.exists,
          backup |-> IF target.exists THEN Partial(target, staged, fail) ELSE NoFile,
          appended |-> 0, error |-> "Failed to append"]

\* append_entity (lines 54-132) with an existing staged file
AppendEntity(target, staged, fail) ==
    LET backupTaken == target.exists
        backup == IF backupTaken THEN target ELSE NoFile
    IN  IF fail.at = "none"
        THEN [file |-> Written(target, staged, Len(DictRows(staged))),
              backupTaken |-> backupTaken, backup |-> backup,
              appended |-> RowsToAppend(staged), error |-> ""]
        ELSE [file |-> RestoreOnError(Partial(target, staged, fail), backupTaken, backup),
              backupTaken |-> backupTaken, backup |-> backup,
              appended |-> 0, error |-> "Failed to append"]

\* append_entity when staged_file.exists() is false (lines 68-74)
StagedMissing(target) ==
    [file |-> target, backupTaken |-> FALSE, backup |-> NoFile,
     appended |-> 0, error |-> "Staged file not found"]

\* append_all skips the entity (lines 149-156)
NoValidRows(target) ==
    [file |-> target, backupTaken |-> FALSE, backup |-> NoFile,
     appended |-> 0, error |-> "No valid rows to append"]

ResultOf(r) == [appended |-> r.appended, backup |-> r.backupTaken, error |-> r.error]

\* the effect of one iteration of append_all's loop on entity e
ApplyAppend(e, r, fail) ==
    /\ lastFail' = fail
    /\ data' = [data EXCEPT ![e] = r.file]
    /\ backups' = IF r.backupTaken THEN [backups EXCEPT ![e] = r.backup] ELSE backups
    /\ appendResults' = (e :> ResultOf(r)) @@ appendResults
    /\ preFile' = [preFile EXCEPT ![e] = data[e]]
    /\ afterAppend' = IF r.error = "" THEN [afterAppend EXCEPT ![e] = r.file]
                      ELSE afterAppend
    /\ cursor' = cursor + 1

\* one iteration of "for entity, stage_result in staging_results.items()"
AppendAllStep ==
    /\ pc = "append_loop" /\ cursor <= Len(todo)
    /\ LET e == todo[cursor]
       IN  IF ~results[e].staged_file \/ results[e].valid_count = 0
           THEN ApplyAppend(e, NoValidRows(data[e]), NoFailure)
           ELSE IF ~staging[e].exists
           THEN ApplyAppend(e, StagedMissing(data[e]), NoFailure)
           ELSE \E fail \in FailPoints(data[e], staging[e]) :
                    ApplyAppend(e, AppendEntity(data[e], staging[e], fail), fail)
    /\ UNCHANGED <<mode, pc, topoVars, data0, staging, results, todo, invocations, entityVars,
                   pipeVars>>

\* "return results" (line 171)
AppendAllReturn ==
    /\ pc = "append_loop" /\ cursor > Len(todo)
    /\ pc' = "append_done"
    /\ UNCHANGED <<mode, topoVars, fileVars, appendVars, entityVars, pipeVars>>

(***************************************************************************)
(* Entry point: append_all called on given staged and persisted files,     *)
(* once or several times in a row (append_writer.main)                     *)
(***************************************************************************)
MaxInvocations == 2
MaxOldRows == 1
MaxNewRows == 2

AppendEnts == <<"CLUSTERS", "LOCATIONS">>
TargetHeader == <<"NAME", "ID", "NOTE">>
StagedHeader == <<"ID", "NAME", "EXTRA">>
RowTag == <<"1", "2", "3", "4">>
\* the k-th line of a file under header h: the cell of column c is c followed by k
LineOf(h, prefix, k) == [i \in 1..Len(h) |-> prefix \o h[i] \o RowTag[k]]

TargetFiles ==
    {NoFile} \cup
    {[exists |-> TRUE,
      lines |-> <<TargetHeader>> \o [k \in 1..n |-> LineOf(TargetHeader, "old", k)],
      nl |-> b] : n \in 0..MaxOldRows, b \in BOOLEAN}
StagedFiles ==
    {NoFile} \cup
    {[exists |-> TRUE,
      lines |-> <<StagedHeader>> \o [k \in 1..n |-> LineOf(StagedHeader, "", k)],
      nl |-> TRUE] : n \in 0..MaxNewRows}
AppendStageResults ==
    {[valid_count |-> 1, staged_file |-> TRUE],
     [valid_count |-> 0, staged_file |-> TRUE],
     [valid_count |-> 1, staged_file |-> FALSE]}

InitAppend ==
    /\ mode = "append" /\ pc = "append_loop"
    /\ IdleTopo /\ IdleEntity /\ IdlePipe
    /\ data \in [Range(AppendEnts) -> TargetFiles]
    /\ data0 = data
    /\ staging \in [Range(AppendEnts) -> StagedFiles]
    /\ backups = [e \in Range(AppendEnts) |-> NoFile]
    /\ results \in [Range(AppendEnts) -> AppendStageResults]
    /\ todo = AppendEnts
    /\ cursor = 1
    /\ appendResults = <<>>
    /\ preFile = [e \in Range(AppendEnts) |-> NoFile]
    /\ afterAppend = [e \in Range(AppendEnts) |-> NoFile]
    /\ invocations = 1
    /\ lastFail = NoFailure

\* append_all is invoked again on the same staging results
AppendAllAgain ==
    /\ mode = "append" /\ pc = "append_done" /\ invocations < MaxInvocations
    /\ pc' = "append_loop"
    /\ cursor' = 1
    /\ appendResults' = <<>>
    /\ invocations' = invocations + 1
    /\ UNCHANGED <<mode, topoVars, fileVars, results, todo, preFile, afterAppend, lastFail,
                   entityVars, pipeVars>>

NextAppend == AppendAllStep \/ AppendAllReturn \/ AppendAllAgain

SpecAppend == InitAppend /\ [][NextAppend]_vars


(***************************************************************************)
(* Cell values and Python's str methods on them                            *)
(***************************************************************************)
\* str.strip()
Strip(s) ==
    CASE s = " " -> ""
      [] s = " a" -> "a"
      [] s = " X1" -> "X1"
      [] s = " S1" -> "S1"
      [] OTHER -> s
\* str.upper(); identifiers are written in upper case
Upper(s) ==
    CASE s = "a" -> "A"
      [] s = " a" -> " A"
      [] s = "b" -> "B"
      [] s = "l1" -> "L1"
      [] s = "l2" -> "L2"
      [] s = "p1" -> "P1"
      [] s = "p2" -> "P2"
      [] s = "s1" -> "S1"
      [] s = "s2" -> "S2"
      [] s = "n" -> "N"
      [] OTHER -> s
\* str.lower() on the values natural keys take
Lower(s) ==
    CASE s = "A" -> "a"
      [] s = " A" -> " a"
      [] s = "B" -> "b"
      [] OTHER -> s
\* value is None or str(value).strip() == ''
IsBlank(v) == Strip(v) = ""
\* truth value of a cell: None and '' are false, ' ' is true
Truthy(v) == v # ""

\* identifiers uuid.uuid4() returns, in the order they are drawn
GenIds == <<"U01", "U02", "U03", "U04", "U05", "U06", "U07", "U08", "U09", "U10",
            "U11", "U12", "U13", "U14", "U15", "U16", "U17", "U18", "U19", "U20",
            "U21", "U22", "U23", "U24", "U25", "U26", "U27", "U28", "U29", "U30",
            "U31", "U32", "U33", "U34", "U35", "U36", "U37", "U38", "U39", "U40">>
\* identifiers of rows persisted by earlier runs, and one typed into the sheet
OldIds == {"K1", "K2", "K3", "X1", "Z1"}
\* re.match of the 8-4-4-4-12 pattern
IsUuid(s) == s \in Range(GenIds) \cup OldIds
\* field.endswith('_ID')
EndsWithId(f) == f \in {"CLUSTER_ID", "LOCATION_ID", "VENDOR_ID"}

Put(d, k, v) == (k :> v) @@ d

(***************************************************************************)
(* validator.DataValidator                                                 *)
(***************************************************************************)
Err(kind, field) == [kind |-> kind, field |-> field]

\* validate_type: [value, err]; err = "" when there is none
ValidateType(value, ftype) ==
    IF IsBlank(value) THEN [value |-> "", err |-> ""]
    ELSE IF ftype = "UUID"
         THEN [value |-> Strip(value),
               err |-> IF IsUuid(Strip(value)) THEN "" ELSE "Invalid UUID format"]
         ELSE [value |-> Strip(value), err |-> ""]

\* the key of a row under a constraint's columns: <<>> as soon as a column is blank
RECURSIVE ConstraintKey(_, _)
ConstraintKey(row, cols) ==
    IF cols = <<>> THEN <<>>
    ELSE IF IsBlank(Get(row, Head(cols), "")) THEN <<>>
    ELSE <<Upper(Strip(Get(row, Head(cols), "")))>> \o ConstraintKey(row, Tail(cols))

\* the comparison the code makes between the candidate's key and a row
SameKeyUpper(row, other, cols) ==
    /\ \A i \in DOMAIN cols : ~IsBlank(Get(row, cols[i], ""))
    /\ Len(ConstraintKey(other, cols)) = Len(cols)
    /\ ConstraintKey(other, cols) = ConstraintKey(row, cols)

\* a validator that compares the trimmed values without upper-casing them
SameKeyExact(row, other, cols) ==
    /\ \A i \in DOMAIN cols : ~IsBlank(Get(row, cols[i], ""))
    /\ \A i \in DOMAIN cols : ~IsBlank(Get(other, cols[i], ""))
    /\ \A i \in DOMAIN cols : Strip(Get(other, cols[i], "")) = Strip(Get(row, cols[i], ""))

\* lines 129-153: does the row collide with the other row on the columns
SameKey(row, other, cols) == SameKeyUpper(row, other, cols)

\* validate_unique_constraints: one error per violated constraint
RECURSIVE ValidateUniqueConstraints(_, _, _)
ValidateUniqueConstraints(constraints, row, existing) ==
    IF constraints = <<>> THEN <<>>
    ELSE LET c == Head(constraints)
             hit == \E i \in DOMAIN existing : SameKey(row, existing[i], c.columns)
         IN  (IF hit THEN <<Err("Unique constraint violated", c.name)>> ELSE <<>>)
             \o ValidateUniqueConstraints(Tail(constraints), row, existing)

\* validate_required_fields: the key fields must not be blank
RECURSIVE ValidateRequiredFields(_, _)
ValidateRequiredFields(fields, row) ==
    IF fields = <<>> THEN <<>>
    ELSE (IF Head(fields).key /\ IsBlank(Get(row, Head(fields).name, ""))
          THEN <<Err("Required key field is missing", Head(fields).name)>> ELSE <<>>)
         \o ValidateRequiredFields(Tail(fields), row)

(***************************************************************************)
(* fk_resolver.FKResolver                                                  *)
(***************************************************************************)
\* a resolver that never reads the staging directory
LoadPersistedOnly(e, withStaging) ==
    IF e \in DOMAIN data THEN DictRows(data[e]) ELSE <<>>

\* a resolver that loads the staged rows before the persisted ones
LoadStagedFirst(e, withStaging) ==
    (IF withStaging /\ e \in DOMAIN staging /\ staging[e].exists
     THEN DictRows(staging[e]) ELSE <<>>)
    \o (IF e \in DOMAIN data THEN DictRows(data[e]) ELSE <<>>)

\* _load_entity_data: persisted rows, then (with a staging_dir) staged rows
LoadEntityData(e, withStaging) ==
    (IF e \in DOMAIN data THEN DictRows(data[e]) ELSE <<>>)
    \o (IF withStaging /\ e \in DOMAIN staging /\ staging[e].exists
        THEN DictRows(staging[e]) ELSE <<>>)

\* the rules of match for which the source row has a non-blank value
Criteria(match, rowValues) ==
    {i \in DOMAIN match : /\ match[i].from \in DOMAIN rowValues
                          /\ ~IsBlank(rowValues[match[i].from])}

\* lines 94-114: does csv_row satisfy every criterion
RowMatches(csvRow, match, rowValues) ==
    \A i \in Criteria(match, rowValues) :
        LET value == Strip(rowValues[match[i].from])
            csvValue == Strip(Get(csvRow, match[i].field, ""))
        IN  IF EndsWithId(match[i].field) /\ csvValue # ""
            THEN csvValue = value
            ELSE Upper(csvValue) = Upper(value)

\* lookup_id: the ID of the first matching row, "" for None
LookupId(rows, match, rowValues) ==
    IF rows = <<>> \/ Criteria(match, rowValues) = {} THEN ""
    ELSE LET hits == {i \in DOMAIN rows : RowMatches(rows[i], match, rowValues)}
         IN  IF hits = {} THEN ""
             ELSE Get(rows[CHOOSE i \in hits : \A j \in hits : i <= j], "ID", "")

\* lines 144-147: the row itself provides the *_ID
Passthrough(fkField, row) == fkField \in DOMAIN row /\ Truthy(row[fkField])

\* resolve_all_fks: FK field -> resolved id ("" for None); view[t] are the
\* rows _load_entity_data(t) returns
ResolveAllFks(lookups, row, view) ==
    [f \in {lookups[i].fk : i \in DOMAIN lookups} |->
        LET l == lookups[CHOOSE i \in DOMAIN lookups : lookups[i].fk = f]
        IN  IF Passthrough(f, row) THEN Strip(row[f])
            ELSE LookupId(view[l.entity], l.match, row)]

\* the target entities lookup_id is called for while resolving the row
LookedUp(lookups, row) ==
    {lookups[i].entity : i \in {j \in DOMAIN lookups : ~Passthrough(lookups[j].fk, row)}}

(***************************************************************************)
(* dedup_config, policy                                                    *)
(***************************************************************************)
\* dedup_config.DEDUP_ENTITIES
DedupEntities ==
    [CLUSTERS |-> <<"NAME">>, SPVS |-> <<"NAME">>,
     PROJECTS |-> <<"NAME", "TYPE", "CATEGORY">>, LOCATIONS |-> <<"NAME">>,
     PLOTS |-> <<"NAME">>, VENDORS |-> <<"CODE">>,
     PROJECTDEFINITIONS |-> <<"CODE">>, PACKAGES |-> <<"NAME">>]
ShouldDeduplicate(e) == e \in DOMAIN DedupEntities
GetDedupKeys(e) == IF e \in DOMAIN DedupEntities THEN DedupEntities[e] ELSE <<>>

\* policy.get_duplicate_policy: the second definition in policy.py is the one
\* in force, DUPLICATE_POLICY.get(entity, 'skip'), and every entry is 'skip'
GetDuplicatePolicy(e) ==
    IF e \in {"CLUSTERS", "LOCATIONS", "SPVS", "PROJECTS", "PACKAGES",
              "PROJECTDEFINITIONS", "VENDORS", "SERVICEORDERS"}
    THEN "skip" ELSE "skip"

(***************************************************************************)
(* transformer.RowTransformer                                              *)
(***************************************************************************)
\* lines 88-93: columnMap is a sequence of <<excel column, csv column>>
RECURSIVE ApplyColumnMap(_, _, _)
ApplyColumnMap(output, columnMap, excelRow) ==
    IF columnMap = <<>> THEN output
    ELSE LET m == Head(columnMap)
         IN  ApplyColumnMap(IF m[1] \in DOMAIN excelRow
                            THEN Put(output, m[2], excelRow[m[1]]) ELSE output,
                            Tail(columnMap), excelRow)

\* lines 95-99: defaults is a sequence of <<csv column, value>>
RECURSIVE ApplyDefaults(_, _)
ApplyDefaults(output, defaults) ==
    IF defaults = <<>> THEN output
    ELSE LET dv == Head(defaults)
         IN  ApplyDefaults(IF dv[1] \in DOMAIN output /\ IsBlank(output[dv[1]])
                           THEN Put(output, dv[1], dv[2]) ELSE output,
                           Tail(defaults))

\* lines 101-110: must a fresh uuid be drawn for the row
NeedsUuid(output, cfg) ==
    /\ cfg.idColumn \in DOMAIN output
    /\ cfg.uuidPolicy = "generate_if_blank"
    /\ IsBlank(output[cfg.idColumn])

\* line 116: enhanced_row = {**excel_row, **output}
EnhancedRow(excelRow, output) == output @@ excelRow

\* lines 119-121: the resolved ids are stored in the output row
RECURSIVE StoreResolved(_, _, _)
StoreResolved(output, lookups, resolved) ==
    IF lookups = <<>> THEN output
    ELSE LET f == Head(lookups).fk
         IN  StoreResolved(IF Truthy(resolved[f]) THEN Put(output, f, resolved[f]) ELSE output,
                           Tail(lookups), resolved)

\* a transformer that takes every lookup for optional
NoFkErrors(output, lookups, resolved) == <<>>

\* lines 122-130: an error for every required FK that is still blank
RECURSIVE FkErrors(_, _, _)
FkErrors(output, lookups, resolved) ==
    IF lookups = <<>> THEN <<>>
    ELSE LET l == Head(lookups)
         IN  (IF /\ ~Truthy(resolved[l.fk])
                 /\ ~l.optional
                 /\ l.fk \in DOMAIN output
                 /\ IsBlank(output[l.fk])
              THEN <<Err("Could not resolve FK", l.fk)>> ELSE <<>>)
             \o FkErrors(output, Tail(lookups), resolved)

\* lines 132-147: type coercion of every declared field present in the row
RECURSIVE CoerceFields(_, _)
CoerceFields(output, fields) ==
    IF fields = <<>> THEN [row |-> output, errors |-> <<>>]
    ELSE LET f == Head(fields)
             vt == ValidateType(output[f.name], f.type)
             rest == CoerceFields(IF f.name \in DOMAIN output /\ vt.err = ""
                                  THEN Put(output, f.name, vt.value) ELSE output,
                                  Tail(fields))
         IN  IF f.name \notin DOMAIN output THEN CoerceFields(output, Tail(fields))
             ELSE [row |-> rest.row,
                   errors |-> (IF vt.err = "" THEN <<>> ELSE <<Err(vt.err, f.name)>>)
                              \o rest.errors]

\* transform_row (lines 60-171); sch is schema['entities'][entity], cfg the
\* sheet config, uuid the value uuid.uuid4() would return
TransformRow(sch, cfg, excelRow, existingRows, view, uuid) ==
    LET out0 == [c \in Range(sch.columns) |-> ""]
        out1 == ApplyColumnMap(out0, cfg.columnMap, excelRow)
        out2 == ApplyDefaults(out1, cfg.defaults)
        gen == NeedsUuid(out2, cfg)
        out3 == IF gen THEN Put(out2, cfg.idColumn, uuid) ELSE out2
        enhanced == EnhancedRow(excelRow, out3)
        resolved == ResolveAllFks(cfg.lookups, enhanced, view)
        out4 == StoreResolved(out3, cfg.lookups, resolved)
        fkErrs == FkErrors(out3, cfg.lookups, resolved)
        co == CoerceFields(out4, sch.fields)
        errors == fkErrs \o co.errors
                  \o ValidateUniqueConstraints(sch.uniqueConstraints, co.row, existingRows)
                  \o ValidateRequiredFields(sch.fields, co.row)
    IN  [ok |-> errors = <<>>, row |-> co.row, errors |-> errors, usedUuid |-> gen,
         looked |-> LookedUp(cfg.lookups, enhanced), resolved |-> resolved]

\* lines 218-234: the batch key of an Excel row under the dedup keys
BatchKey(cfg, keys, excelRow) ==
    [i \in DOMAIN keys |->
        LET from == {j \in DOMAIN cfg.columnMap : cfg.columnMap[j][2] = keys[i]}
            excelCol == IF from = {} THEN ""
                        ELSE cfg.columnMap[CHOOSE j \in from : \A k \in from : j <= k][1]
        IN  IF excelCol # "" /\ excelCol \in DOMAIN excelRow
            THEN Lower(Strip(excelRow[excelCol])) ELSE ""]

\* lines 207, 253: the key of a csv row under the dedup keys
StoreKey(row, keys) == [i \in DOMAIN keys |-> Upper(Strip(Get(row, keys[i], "")))]

IsUniqueError(err) == err.kind = "Unique constraint violated"

\* the state of transform_entity's loop before the first row (lines 193-211)
EntityLoopStart(e, existingRows, next) ==
    [valid |-> <<>>, errors |-> <<>>, allRows |-> existingRows,
     existingKeys |-> IF ShouldDeduplicate(e)
                      THEN {StoreKey(existingRows[i], GetDedupKeys(e)) : i \in DOMAIN existingRows}
                      ELSE {},
     seenKeys |-> {}, next |-> next, looked |-> {}]

\* the rows a candidate is checked against for uniqueness (line 247)
UniquenessScope(acc, existingRows) == acc.allRows

\* a loop that skips the rows with a blank key only
SkippedWhenBlank(e, acc, bkey) ==
    /\ ShouldDeduplicate(e)
    /\ \A i \in DOMAIN bkey : bkey[i] = ""

\* lines 236-245: is the row skipped before transform_row is called
SkippedByBatchKey(e, acc, bkey) ==
    /\ ShouldDeduplicate(e)
    /\ \/ \A i \in DOMAIN bkey : bkey[i] = ""
       \/ bkey \in acc.seenKeys

\* lines 249-261: the transformed row is kept unless its key is in the store
KeepRow(e, acc, row, skey) ==
    IF ShouldDeduplicate(e) /\ skey \in acc.existingKeys THEN acc
    ELSE [acc EXCEPT !.existingKeys = IF ShouldDeduplicate(e) THEN @ \cup {skey} ELSE @,
                     !.valid = Append(@, row),
                     !.allRows = Append(@, row)]

\* lines 262-287: what becomes of a row transform_row turned down
RejectRow(e, acc, idx, errors) ==
    IF ShouldDeduplicate(e) /\ (\E i \in DOMAIN errors : IsUniqueError(errors[i]))
    THEN acc
    ELSE IF /\ GetDuplicatePolicy(e) = "skip"
            /\ \A i \in DOMAIN errors : IsUniqueError(errors[i])
         THEN [acc EXCEPT !.errors = Append(@,
                  [row_num |-> idx, errors |-> <<Err("Skipped due to duplicate", "")>>])]
         ELSE [acc EXCEPT !.errors = Append(@, [row_num |-> idx, errors |-> errors])]

\* lines 245-287: the loop state after transform_row returned t
AfterTransformRow(e, acc, idx, bkey, t) ==
    IF t.ok
    THEN KeepRow(e, [acc EXCEPT !.seenKeys = IF ShouldDeduplicate(e) THEN @ \cup {bkey} ELSE @,
                                !.next = IF t.usedUuid THEN @ + 1 ELSE @,
                                !.looked = @ \cup t.looked],
                 t.row, StoreKey(t.row, GetDedupKeys(e)))
    ELSE RejectRow(e, [acc EXCEPT !.seenKeys = IF ShouldDeduplicate(e) THEN @ \cup {bkey} ELSE @,
                                  !.next = IF t.usedUuid THEN @ + 1 ELSE @,
                                  !.looked = @ \cup t.looked],
                   idx, t.errors)

\* one iteration of transform_entity's loop (lines 213-287) on row idx
EntityLoopBody(e, sch, cfg, excelRow, idx, acc, existingRows, view) ==
    IF SkippedByBatchKey(e, acc, BatchKey(cfg, GetDedupKeys(e), excelRow)) THEN acc
    ELSE AfterTransformRow(e, acc, idx, BatchKey(cfg, GetDedupKeys(e), excelRow),
                           TransformRow(sch, cfg, excelRow, UniquenessScope(acc, existingRows),
                                        view, GenIds[acc.next]))

RECURSIVE EntityLoop(_, _, _, _, _, _, _, _)
EntityLoop(e, sch, cfg, excelRows, idx, acc, existingRows, view) ==
    IF idx > Len(excelRows) THEN acc
    ELSE EntityLoop(e, sch, cfg, excelRows, idx + 1,
                    EntityLoopBody(e, sch, cfg, excelRows[idx], idx, acc, existingRows, view),
                    existingRows, view)

\* transform_entity (lines 173-289): valid rows, error records, and the
\* bookkeeping the caller needs (uuids drawn, entities loaded by the resolver)
TransformEntity(e, sch, cfg, excelRows, existingRows, view, next) ==
    EntityLoop(e, sch, cfg, excelRows, 1, EntityLoopStart(e, existingRows, next),
               existingRows, view)

(***************************************************************************)
(* The built schema (build/schema.json) and the sheet configurations       *)
(* (config/mapping_generated.yaml)                                         *)
(***************************************************************************)
Field(name, type, key) == [name |-> name, type |-> type, key |-> key]

\* schema['entities'][e]: csv columns, fields (associations are not fields)
\* and unique constraints
Schema(e) ==
    CASE e = "CLUSTERS" ->
           [columns |-> <<"ID", "NAME">>,
            fields |-> <<Field("ID", "UUID", TRUE), Field("NAME", "String", FALSE)>>,
            uniqueConstraints |-> <<>>]
      [] e = "LOCATIONS" ->
           [columns |-> <<"ID", "NAME", "CLUSTER_ID">>,
            fields |-> <<Field("ID", "UUID", TRUE), Field("NAME", "String", FALSE)>>,
            uniqueConstraints |-> <<>>]
      [] e = "PLOTS" ->
           [columns |-> <<"ID", "NAME", "LOCATION_ID">>,
            fields |-> <<Field("ID", "UUID", TRUE), Field("NAME", "String", FALSE)>>,
            uniqueConstraints |-> <<>>]
      [] e = "VENDORS" ->
           [columns |-> <<"ID", "CODE", "NAME">>,
            fields |-> <<Field("ID", "UUID", TRUE), Field("CODE", "String", FALSE),
                         Field("NAME", "String", FALSE)>>,
            uniqueConstraints |-> <<[name |-> "vendorName", columns |-> <<"NAME">>]>>]
      [] OTHER ->
           [columns |-> <<"ID", "SO_NUMBER", "VENDOR_ID">>,
            fields |-> <<Field("ID", "UUID", TRUE), Field("SO_NUMBER", "String", FALSE)>>,
            uniqueConstraints |-> <<[name |-> "soNumber", columns |-> <<"SO_NUMBER">>]>>]

Lookup(fk, entity, field, from) ==
    [fk |-> fk, entity |-> entity, match |-> <<[field |-> field, from |-> from]>>,
     optional |-> FALSE]

\* the sheet configuration generate_mapping writes for the entity
SheetConfig(e) ==
    LET base == [idColumn |-> "ID", uuidPolicy |-> "generate_if_blank", defaults |-> <<>>]
    IN  CASE e = "CLUSTERS" ->
               base @@ [columnMap |-> <<<<"Cluster", "NAME">>>>, lookups |-> <<>>]
          [] e = "LOCATIONS" ->
               base @@ [columnMap |-> <<<<"Location", "NAME">>>>,
                        lookups |-> <<Lookup("CLUSTER_ID", "CLUSTERS", "NAME", "Cluster")>>]
          [] e = "PLOTS" ->
               base @@ [columnMap |-> <<<<"Plot No", "NAME">>>>,
                        lookups |-> <<Lookup("LOCATION_ID", "LOCATIONS", "NAME", "Location")>>]
          [] e = "VENDORS" ->
               base @@ [columnMap |-> <<<<"Vendor Code", "CODE">>, <<"Vendor Name", "NAME">>>>,
                        lookups |-> <<>>]
          [] OTHER ->
               base @@ [columnMap |-> <<<<"SO Number", "SO_NUMBER">>>>,
                        lookups |-> <<Lookup("VENDOR_ID", "VENDORS", "CODE", "Vendor Code")>>]

\* a configuration edited by hand to map the sheet's own *_ID column too
WithFkColumn(c) ==
    [c EXCEPT !.columnMap = @ \o [i \in DOMAIN c.lookups |-> <<c.lookups[i].fk, c.lookups[i].fk>>]]

\* a configuration edited by hand to take the identifier from the sheet
\* (lines 102-110 keep a non-blank value of the id column)
WithIdColumn(c) == [c EXCEPT !.columnMap = @ \o <<<<"Vendor Id", c.idColumn>>>>]

\* a configuration whose identifier policy is 'preserve' (line 103)
WithPreserve(c) == [c EXCEPT !.uuidPolicy = "preserve"]

\* a configuration edited by hand to flag its lookups optional (line 125)
WithOptionalFks(c) ==
    [c EXCEPT !.lookups = [i \in DOMAIN c.lookups |-> [c.lookups[i] EXCEPT !.optional = TRUE]]]

\* a persisted or staged file with the entity's columns and the given rows
FileOf(e, rows) ==
    [exists |-> TRUE,
     lines |-> <<Schema(e).columns>> \o [i \in DOMAIN rows |-> OutLine(Schema(e).columns, rows[i])],
     nl |-> TRUE]

(***************************************************************************)
(* Entry point: transform_entity on one entity of a sheet                  *)
(***************************************************************************)
MaxExcelRows == 2

EntityEnts == {"VENDORS", "SERVICEORDERS"}
AllEnts == {"CLUSTERS", "LOCATIONS", "PLOTS", "VENDORS", "SERVICEORDERS"}

\* the sheets: rows read by _read_excel_data, which drops all-empty rows
SheetRows(e) ==
    IF e = "VENDORS"
    THEN {r \in [{"Vendor Code", "Vendor Name", "Vendor Id"}
                     -> {"", "a", " a", "b", "n", "N", "m", "zz", "K2"}] :
            /\ r["Vendor Code"] \in {"", "a", " a", "b"}
            /\ r["Vendor Name"] \in {"n", "N", "m"}
            /\ r["Vendor Id"] \in {"", "zz", "K2"}}
    ELSE {r \in [{"SO Number", "Vendor Code", "VENDOR_ID"} -> {"", "s1", " S1", "a", " X1"}] :
            /\ r["SO Number"] \in {"", "s1", " S1"}
            /\ r["Vendor Code"] \in {"", "a"}
            /\ r["VENDOR_ID"] \in {"", " X1"}
            /\ \E c \in DOMAIN r : r[c] # ""}
Sheets(e) == UNION {[1..n -> SheetRows(e)] : n \in 1..MaxExcelRows}

PersistedVendor == [ID |-> "K2", CODE |-> "A", NAME |-> "n"]
PersistedOrder == [ID |-> "K1", SO_NUMBER |-> "S1", VENDOR_ID |-> "K2"]

\* no file is written, every variable but the given ones stays
EntityFrame ==
    UNCHANGED <<mode, topoVars, fileVars, appendVars, ent, sheetConfig, excel, pipeVars>>

NoRowYet == [called |-> FALSE]

\* lines 186-211: load the existing rows, start the loop
EntityLoad ==
    /\ mode = "entity" /\ pc = "entity_load"
    /\ loop' = EntityLoopStart(ent, DictRows(data[ent]), 1)
    /\ rowNum' = 1
    /\ pc' = "entity_loop"
    /\ lastRow' = NoRowYet
    /\ EntityFrame

\* the rows lookup_id searches: the transformer has no staging_dir
EntityView == [t \in AllEnts |-> LoadEntityData(t, FALSE)]

\* was transform_row reached for the row (lines 215-247)
ReachesTransformRow(e, c, excelRow, a) ==
    \/ ~ShouldDeduplicate(e)
    \/ LET bkey == BatchKey(c, GetDedupKeys(e), excelRow)
       IN  (\E i \in DOMAIN bkey : bkey[i] # "") /\ bkey \notin a.seenKeys

\* history: what transform_row was given and what it returned
RowRecord(excelRow, t) ==
    [called |-> TRUE, excelRow |-> excelRow, ok |-> t.ok, row |-> t.row, errors |-> t.errors,
     resolved |-> t.resolved, looked |-> t.looked]

\* one iteration of the loop of transform_entity
EntityRow ==
    /\ mode = "entity" /\ pc = "entity_loop" /\ rowNum <= Len(excel)
    /\ loop.next <= Len(GenIds)
    /\ loop' = EntityLoopBody(ent, Schema(ent), sheetConfig, excel[rowNum], rowNum,
                              loop, DictRows(data[ent]), EntityView)
    /\ lastRow' = IF ReachesTransformRow(ent, sheetConfig, excel[rowNum], loop)
                  THEN RowRecord(excel[rowNum],
                                 TransformRow(Schema(ent), sheetConfig, excel[rowNum],
                                              loop.allRows, EntityView, GenIds[loop.next]))
                  ELSE NoRowYet
    /\ rowNum' = rowNum + 1
    /\ UNCHANGED pc
    /\ EntityFrame

\* line 289: return valid_rows, error_records
EntityReturn ==
    /\ mode = "entity" /\ pc = "entity_loop" /\ rowNum > Len(excel)
    /\ pc' = "entity_done"
    /\ UNCHANGED <<rowNum, loop, lastRow>>
    /\ EntityFrame

InitEntity ==
    /\ mode = "entity" /\ pc = "entity_load"
    /\ IdleTopo /\ IdleAppend /\ IdlePipe
    /\ ent \in EntityEnts
    /\ sheetConfig \in {SheetConfig(ent)}
                       \cup (IF SheetConfig(ent).lookups = <<>>
                             THEN {WithIdColumn(SheetConfig(ent)),
                                   WithPreserve(WithIdColumn(SheetConfig(ent)))}
                             ELSE {WithFkColumn(SheetConfig(ent)),
                                   WithOptionalFks(SheetConfig(ent))})
    /\ excel \in Sheets(ent)
    /\ \E vs \in {<<>>, <<PersistedVendor>>}, os \in {<<>>, <<PersistedOrder>>} :
          /\ (ent = "VENDORS" => os = <<>>)
          /\ (os # <<>> => vs # <<>>)
          /\ data = [e \in EntityEnts |-> FileOf(e, IF e = "VENDORS" THEN vs ELSE os)]
    /\ data0 = data
    /\ staging = [e \in EntityEnts |-> NoFile]
    /\ backups = [e \in EntityEnts |-> NoFile]
    /\ rowNum = 0 /\ loop = <<>> /\ lastRow = NoRowYet

NextEntity == EntityLoad \/ EntityRow \/ EntityReturn

SpecEntity == InitEntity /\ [][NextEntity]_vars

(***************************************************************************)
(* Entry point: lookup_id called on a resolver with given files            *)
(***************************************************************************)
MaxTargetRows == 2

LookupTarget == "LOCATIONS"
NameRule == [field |-> "NAME", from |-> "Location"]
ClusterRule == [field |-> "CLUSTER_ID", from |-> "Cluster Id"]
\* match_fields: a single natural key, or a compound key
MatchLists == {<<NameRule>>, <<NameRule, ClusterRule>>}

\* row_values: the row may lack the second column altogether
LookupRowValues ==
    {r \in [{"Location", "Cluster Id"} -> {"", " ", "l1", "l2", "K1", " X1"}] :
        r["Location"] \in {"", " ", "l1", "l2"} /\ r["Cluster Id"] \in {"", "K1", " X1"}}
    \cup [{"Location"} -> {"", "l1"}]

\* rows of the persisted and of the staged LOCATIONS file; natural keys recur
PersistedTargetRows ==
    {[ID |-> "K2", NAME |-> "L1", CLUSTER_ID |-> "K1"],
     [ID |-> "K3", NAME |-> "l1", CLUSTER_ID |-> "X1"],
     [ID |-> "Z1", NAME |-> "l2", CLUSTER_ID |-> ""]}
StagedTargetRows ==
    {[ID |-> "U01", NAME |-> "l1", CLUSTER_ID |-> "K1"],
     [ID |-> "U02", NAME |-> "L1", CLUSTER_ID |-> "X1"],
     [ID |-> "U03", NAME |-> "L2", CLUSTER_ID |-> "K1"]}
RowSeqs(set) == UNION {[1..n -> set] : n \in 0..MaxTargetRows}

InitLookup ==
    /\ mode = "lookup" /\ pc = "lookup_load"
    /\ IdleTopo /\ IdleAppend
    /\ \E rows \in RowSeqs(PersistedTargetRows) : data = (LookupTarget :> FileOf(LookupTarget, rows))
    /\ data0 = data
    /\ staging \in {(LookupTarget :> NoFile)}
                    \cup {(LookupTarget :> FileOf(LookupTarget, rows)) :
                            rows \in RowSeqs(StagedTargetRows)}
    /\ backups = (LookupTarget :> NoFile)
    /\ useStaging \in BOOLEAN
    /\ sheetConfig \in {[entity |-> LookupTarget, match |-> m] : m \in MatchLists}
    /\ excel \in {<<r>> : r \in LookupRowValues}
    /\ cache = <<>> /\ lastRow = NoRowYet
    /\ ent = "" /\ rowNum = 0 /\ loop = <<>>
    /\ command = "" /\ passNum = 0 /\ retry = <<>> /\ stageCursor = 0
    /\ nextId = 1 /\ errorsBefore = 0 /\ stageResults = <<>> /\ pass1Results = <<>>
    /\ outcome = "" /\ stageLog = [passes |-> <<>>, ending |-> ""] /\ runs = 0

LookupFrame ==
    UNCHANGED <<mode, topoVars, fileVars, appendVars, ent, sheetConfig, excel, rowNum, loop,
                command, passNum, retry, stageCursor, useStaging, nextId, errorsBefore,
                stageResults, pass1Results, stageLog, runs, outcome>>

\* line 77: data = self._load_entity_data(target_entity), cached
LookupLoad ==
    /\ mode = "lookup" /\ pc = "lookup_load"
    /\ cache' = (sheetConfig.entity :> LoadEntityData(sheetConfig.entity, useStaging))
    /\ pc' = "lookup_scan"
    /\ UNCHANGED lastRow
    /\ LookupFrame

\* lines 78-116: criteria, scan, return
LookupScan ==
    /\ mode = "lookup" /\ pc = "lookup_scan"
    /\ lastRow' = [called |-> TRUE,
                   result |-> LookupId(cache[sheetConfig.entity], sheetConfig.match, excel[1])]
    /\ pc' = "lookup_done"
    /\ UNCHANGED cache
    /\ LookupFrame

NextLookup == LookupLoad \/ LookupScan

SpecLookup == InitLookup /\ [][NextLookup]_vars

(***************************************************************************)
(* staging_engine.StagingEngine                                            *)
(***************************************************************************)
\* schema['ingestionOrder']
IngestionOrder == <<"CLUSTERS", "LOCATIONS", "PLOTS">>
PipeEnts == Range(IngestionOrder)
\* max_passes
MaxPasses == 5

\* _load_entity_data as the transformer in use sees it: the cached rows if
\* the entity was loaded before, the files otherwise
CachedView ==
    [t \in AllEnts |-> IF t \in DOMAIN cache THEN cache[t] ELSE LoadEntityData(t, useStaging)]

\* a run that writes the staged rows over the persisted file
WriteDataFile(e, rows) ==
    /\ data' = [data EXCEPT ![e] = FileOf(e, rows)]
    /\ staging' = staging

\* lines 121-136: open(staging_dir / f"{entity}.csv", 'w'), header, rows
WriteStagedFile(e, rows) ==
    /\ staging' = [staging EXCEPT ![e] = FileOf(e, rows)]
    /\ data' = data

\* lines 138-145: the result dict
StageResult(r) ==
    [valid_count |-> Len(r.valid), error_count |-> Len(r.errors),
     staged_file |-> r.valid # <<>>, errors |-> r.errors]

\* lines 119-145: the staged file is written when there are valid rows
StageOutcome(e, r, view) ==
    /\ IF r.valid # <<>> THEN WriteStagedFile(e, r.valid)
       ELSE UNCHANGED <<staging, data>>
    /\ cache' = [t \in DOMAIN cache \cup r.looked |-> view[t]]
    /\ nextId' = r.next
    /\ stageResults' = Put(stageResults, e, StageResult(r))
    /\ stageLog' = [stageLog EXCEPT !.passes[Len(stageLog.passes)] = Append(@, e)]

\* stage_entity (lines 79-145) on a sheet with data rows
StageEntity(e) ==
    StageOutcome(e, TransformEntity(e, Schema(e), SheetConfig(e), excel, DictRows(data[e]),
                                    CachedView, nextId),
                 CachedView)

IsFkError(err) == err.kind = "Could not resolve FK"

\* lines 185-190
HasFkError(result) ==
    /\ result.error_count > 0
    /\ \E i \in DOMAIN result.errors :
          \E j \in DOMAIN result.errors[i].errors : IsFkError(result.errors[i].errors[j])

\* a retry list that names every failing entity twice
RetryTwice(res) ==
    SelectSeq(IngestionOrder \o IngestionOrder, LAMBDA e : e \in DOMAIN res /\ HasFkError(res[e]))

\* a retry list in the reverse of the ingestion order
RetryReversed(res) ==
    SelectSeq([i \in 1..Len(IngestionOrder) |-> IngestionOrder[Len(IngestionOrder) + 1 - i]],
              LAMBDA e : e \in DOMAIN res /\ HasFkError(res[e]))

\* lines 183-191: in the order of the results dict
EntitiesWithFkErrors(res) ==
    SelectSeq(IngestionOrder, LAMBDA e : e \in DOMAIN res /\ HasFkError(res[e]))

RECURSIVE SumOver(_, _, _)
SumOver(res, ents, field) ==
    IF ents = <<>> THEN 0
    ELSE res[Head(ents)][field] + SumOver(res, Tail(ents), field)

\* a progress measure that sums the valid rows instead
TotalValidOf(res, ents) == SumOver(res, ents, "valid_count")

\* sum(results[e]['error_count'] for e in entities_with_fk_errors)
TotalErrorsOf(res, ents) == SumOver(res, ents, "error_count")

StageFrame ==
    UNCHANGED <<mode, topoVars, data0, backups, appendVars, entityVars, command, outcome,
                runs>>

\* pass 1, one entity (lines 166-174)
StagePass1 ==
    /\ mode = "pipeline" /\ pc = "pass1" /\ stageCursor <= Len(IngestionOrder)
    /\ nextId + Len(excel) <= Len(GenIds) + 1
    /\ StageEntity(IngestionOrder[stageCursor])
    /\ stageCursor' = stageCursor + 1
    /\ UNCHANGED <<pc, passNum, retry, useStaging, errorsBefore, pass1Results>>
    /\ StageFrame

\* lines 177-178: pass 1 is over
Pass1End ==
    /\ mode = "pipeline" /\ pc = "pass1" /\ stageCursor > Len(IngestionOrder)
    /\ pc' = "warm_head"
    /\ passNum' = 2
    /\ pass1Results' = stageResults
    /\ UNCHANGED <<fileVars, stageCursor, retry, useStaging, cache, nextId, errorsBefore,
                   stageResults, stageLog>>
    /\ StageFrame

\* lines 180-209: a further pass begins with a new transformer on staging_dir
WarmPassBegin ==
    /\ mode = "pipeline" /\ pc = "warm_head" /\ passNum <= MaxPasses
    /\ EntitiesWithFkErrors(stageResults) # <<>>
    /\ retry' = EntitiesWithFkErrors(stageResults)
    /\ useStaging' = TRUE
    /\ cache' = <<>>
    /\ errorsBefore' = TotalErrorsOf(stageResults, EntitiesWithFkErrors(stageResults))
    /\ stageCursor' = 1
    /\ pc' = "warm_pass"
    /\ stageLog' = [stageLog EXCEPT !.passes = Append(@, <<>>)]
    /\ UNCHANGED <<fileVars, passNum, nextId, stageResults, pass1Results>>
    /\ StageFrame

\* lines 211-216: one entity re-staged
WarmStage ==
    /\ mode = "pipeline" /\ pc = "warm_pass" /\ stageCursor <= Len(retry)
    /\ nextId + Len(excel) <= Len(GenIds) + 1
    /\ StageEntity(retry[stageCursor])
    /\ stageCursor' = stageCursor + 1
    /\ UNCHANGED <<pc, passNum, retry, useStaging, errorsBefore, pass1Results>>
    /\ StageFrame

\* lines 218-225: stop without improvement, else next pass
WarmPassEnd ==
    /\ mode = "pipeline" /\ pc = "warm_pass" /\ stageCursor > Len(retry)
    /\ IF TotalErrorsOf(stageResults, retry) >= errorsBefore
       THEN /\ pc' = "staged" /\ UNCHANGED passNum
            /\ stageLog' = [stageLog EXCEPT !.ending = "no_improvement"]
       ELSE /\ pc' = "warm_head" /\ passNum' = passNum + 1
            /\ UNCHANGED stageLog
    /\ UNCHANGED <<fileVars, stageCursor, retry, useStaging, cache, nextId, errorsBefore,
                   stageResults, pass1Results>>
    /\ StageFrame

\* lines 181, 193-194, 227: the loop ends, stage_all returns
StageAllReturn ==
    /\ mode = "pipeline" /\ pc = "warm_head"
    /\ passNum > MaxPasses \/ EntitiesWithFkErrors(stageResults) = <<>>
    /\ pc' = "staged"
    /\ stageLog' = [stageLog EXCEPT !.ending = IF passNum > MaxPasses THEN "exhausted"
                                               ELSE "converged"]
    /\ UNCHANGED <<fileVars, passNum, stageCursor, retry, useStaging, cache, nextId,
                   errorsBefore, stageResults, pass1Results>>
    /\ StageFrame

(***************************************************************************)
(* main.py: the commands stage, commit and commit-partial                  *)
(***************************************************************************)
Commands == {"stage", "commit", "commit-partial"}

\* sum(r['error_count'] for r in results.values()), likewise valid_count
TotalErrors(res) == SumOver(res, SelectSeq(IngestionOrder, LAMBDA e : e \in DOMAIN res), "error_count")
TotalValid(res) == SumOver(res, SelectSeq(IngestionOrder, LAMBDA e : e \in DOMAIN res), "valid_count")

Exit(how) == [pc |-> "exit", outcome |-> how]
Proceed == [pc |-> "confirm", outcome |-> ""]

\* a commit that does not look at the error counts
LenientGate(res) ==
    IF TotalValid(res) = 0 THEN Exit("aborted_no_valid") ELSE Proceed

\* commit, lines 96-123: abort on any error, abort without valid rows
CommitGate(res) ==
    IF TotalErrors(res) > 0 THEN Exit("aborted_errors")
    ELSE IF TotalValid(res) = 0 THEN Exit("aborted_no_valid")
    ELSE Proceed

\* a filter that keeps every entity with valid rows
WithValidRows(res) ==
    [e \in {x \in DOMAIN res : res[x].valid_count > 0} |-> res[e]]

\* commit-partial, lines 195-199: clean_results
CleanResults(res) ==
    [e \in {x \in DOMAIN res : res[x].error_count = 0 /\ res[x].valid_count > 0} |-> res[e]]

\* commit-partial, lines 201-205: skipped_results
SkippedResults(res) ==
    [e \in {x \in DOMAIN res : res[x].error_count > 0} |-> res[e]]

\* commit-partial, lines 207-209
PartialGate(res) ==
    IF DOMAIN CleanResults(res) = {} THEN Exit("aborted_no_clean") ELSE Proceed

\* the dict handed to append_all (lines 147 and 238)
AppendArgument(cmd, res) == IF cmd = "commit" THEN res ELSE CleanResults(res)

MainFrame ==
    UNCHANGED <<mode, topoVars, fileVars, entityVars, command, passNum, retry, stageCursor,
                useStaging, cache, nextId, errorsBefore, stageResults, pass1Results,
                stageLog, runs>>

\* stage, lines 52-74: print the summary
MainStage ==
    /\ mode = "pipeline" /\ pc = "staged" /\ command = "stage"
    /\ pc' = "exit" /\ outcome' = "staged"
    /\ UNCHANGED appendVars
    /\ MainFrame

\* commit, lines 84-137
MainCommit ==
    /\ mode = "pipeline" /\ pc = "staged" /\ command = "commit"
    /\ pc' = CommitGate(stageResults).pc
    /\ outcome' = CommitGate(stageResults).outcome
    /\ UNCHANGED appendVars
    /\ MainFrame

\* commit-partial, lines 183-229
MainCommitPartial ==
    /\ mode = "pipeline" /\ pc = "staged" /\ command = "commit-partial"
    /\ pc' = PartialGate(stageResults).pc
    /\ outcome' = PartialGate(stageResults).outcome
    /\ UNCHANGED appendVars
    /\ MainFrame

\* input("... [y/N]: ").strip().lower()
Responses == {"y", "n"}

\* lines 139-147 and 231-238: the answer, then append_all is called
MainConfirm ==
    /\ mode = "pipeline" /\ pc = "confirm"
    /\ \E response \in Responses :
          IF response # "y"
          THEN /\ pc' = "exit" /\ outcome' = "aborted_user"
               /\ UNCHANGED appendVars
          ELSE /\ pc' = "append_loop" /\ outcome' = outcome
               /\ results' = AppendArgument(command, stageResults)
               /\ todo' = SelectSeq(IngestionOrder,
                                    LAMBDA e : e \in DOMAIN AppendArgument(command, stageResults))
               /\ cursor' = 1
               /\ appendResults' = <<>>
               /\ invocations' = invocations + 1
               /\ UNCHANGED <<preFile, afterAppend, lastFail>>
    /\ MainFrame

\* total_failed (lines 154, 245)
TotalFailed(ar) == Cardinality({e \in DOMAIN ar : ar[e].error # ""})

\* lines 149-173 and 240-269: the summary after append_all
MainSummary ==
    /\ mode = "pipeline" /\ pc = "append_done"
    /\ pc' = "exit"
    /\ outcome' = IF TotalFailed(appendResults) > 0 THEN "failed" ELSE "completed"
    /\ UNCHANGED appendVars
    /\ MainFrame

(***************************************************************************)
(* Entry point: main on a sheet of clusters, locations and plots           *)
(***************************************************************************)
PipeSheetRows ==
    {r \in [{"Cluster", "Location", "Plot No"} -> {"", "a", "l1", "l2", "p1"}] :
        /\ r["Cluster"] \in {"", "a"}
        /\ r["Location"] \in {"", "l1", "l2"}
        /\ r["Plot No"] \in {"", "p1"}
        /\ \E c \in DOMAIN r : r[c] # ""}
PipeSheets == UNION {[1..n -> PipeSheetRows] : n \in 1..MaxExcelRows}

\* rows persisted by earlier runs: a cluster, a location in it, a plot on it
PersistedChain ==
    [CLUSTERS |-> <<[ID |-> "K1", NAME |-> "A"]>>,
     LOCATIONS |-> <<[ID |-> "K2", NAME |-> "L1", CLUSTER_ID |-> "K1"]>>,
     PLOTS |-> <<[ID |-> "K3", NAME |-> "P1", LOCATION_ID |-> "K2"]>>]
\* the first depth entities of the ingestion order have their row
PersistedFiles(depth) ==
    [e \in PipeEnts |->
        FileOf(e, IF IndexOf(IngestionOrder, e) <= depth THEN PersistedChain[e] ELSE <<>>)]

\* the staging directory: empty, or holding a file an earlier run staged
StaleLocations == FileOf("LOCATIONS", <<[ID |-> "Z1", NAME |-> "l1", CLUSTER_ID |-> "K1"]>>)
StagingDirs ==
    {[e \in PipeEnts |-> NoFile],
     [e \in PipeEnts |-> IF e = "LOCATIONS" THEN StaleLocations ELSE NoFile]}

\* main is started with one of the commands on one of the data directories
InitMain(cmds, dirs) ==
    /\ mode = "pipeline" /\ pc = "pass1"
    /\ IdleTopo
    /\ command \in cmds
    /\ excel \in PipeSheets
    /\ data \in dirs
    /\ data0 = data
    /\ staging \in StagingDirs
    /\ backups = [e \in PipeEnts |-> NoFile]
    /\ ent = "" /\ sheetConfig = <<>> /\ rowNum = 0 /\ loop = <<>> /\ lastRow = <<>>
    /\ passNum = 1 /\ retry = <<>> /\ stageCursor = 1 /\ useStaging = FALSE
    /\ cache = <<>> /\ nextId = 1 /\ errorsBefore = 0
    /\ stageResults = <<>> /\ pass1Results = <<>> /\ outcome = ""
    /\ stageLog = [passes |-> <<<<>>>>, ending |-> ""] /\ runs = 1
    /\ results = <<>> /\ todo = <<>> /\ cursor = 0 /\ appendResults = <<>>
    /\ preFile = [e \in PipeEnts |-> NoFile]
    /\ afterAppend = [e \in PipeEnts |-> NoFile]
    /\ invocations = 0
    /\ lastFail = NoFailure

DataDirs == {PersistedFiles(depth) : depth \in 0..Len(IngestionOrder)}

Init == InitMain(Commands, DataDirs)

Next ==
    \/ StagePass1 \/ Pass1End \/ WarmPassBegin \/ WarmStage \/ WarmPassEnd \/ StageAllReturn
    \/ MainStage \/ MainCommit \/ MainCommitPartial \/ MainConfirm
    \/ AppendAllStep \/ AppendAllReturn \/ MainSummary

Spec == Init /\ [][Next]_vars

(***************************************************************************)
(* Entry point: a commit, then the stage command on the same workbook      *)
(***************************************************************************)
MaxRuns == 2

\* a csv file whose last line is not terminated (saved by an editor, a
\* spreadsheet export or another tool)
Unterminated(f) == [f EXCEPT !.nl = FALSE]
UnterminatedDirs == {[e \in PipeEnts |-> Unterminated(d[e])] : d \in DataDirs}

InitRerun == InitMain({"commit", "commit-partial"}, DataDirs \cup UnterminatedDirs)

\* python -m src.main stage, once more: a new StagingEngine on the files the
\* previous run left (main.py lines 33-45)
MainAgain ==
    /\ mode = "pipeline" /\ pc = "exit" /\ runs < MaxRuns
    /\ runs' = runs + 1
    /\ command' = "stage"
    /\ pc' = "pass1" /\ passNum' = 1 /\ retry' = <<>> /\ stageCursor' = 1
    /\ useStaging' = FALSE /\ cache' = <<>> /\ errorsBefore' = 0
    /\ stageResults' = <<>> /\ pass1Results' = <<>> /\ outcome' = ""
    /\ stageLog' = [passes |-> <<<<>>>>, ending |-> ""]
    /\ UNCHANGED <<mode, topoVars, fileVars, appendVars, entityVars, nextId>>

NextRerun == Next \/ MainAgain

SpecRerun == InitRerun /\ [][NextRerun]_vars

(***************************************************************************)
(* Entry point: stage_all alone (staging_engine.main), run to its return.  *)
(***************************************************************************)
InitStageAll == Init /\ command = "stage"

NextStageAll ==
    \/ StagePass1 \/ Pass1End \/ WarmPassBegin \/ WarmStage \/ WarmPassEnd \/ StageAllReturn

\* the control flow of stage_all (lines 168-227): the for loops advance by
\* one entity, the while loop is entered or left
StageAllAdvance ==
    /\ mode = "pipeline"
    /\ \/ /\ pc = "pass1" /\ stageCursor <= Len(IngestionOrder)
          /\ pc' = pc /\ stageCursor' = stageCursor + 1
       \/ /\ pc = "pass1" /\ stageCursor > Len(IngestionOrder)
          /\ pc' = "warm_head" /\ stageCursor' = stageCursor
       \/ /\ pc = "warm_head"
          /\ \/ pc' = "warm_pass" /\ stageCursor' = 1
             \/ pc' = "staged" /\ stageCursor' = stageCursor
       \/ /\ pc = "warm_pass" /\ stageCursor <= Len(retry)
          /\ pc' = pc /\ stageCursor' = stageCursor + 1
       \/ /\ pc = "warm_pass" /\ stageCursor > Len(retry)
          /\ pc' \in {"warm_head", "staged"} /\ stageCursor' = stageCursor

\* stage_all runs in one thread and each of its statements returns
\* (stage_entity reads and writes finite files), so control always advances:
\* weak fairness on the control flow
SpecStageAll ==
    InitStageAll /\ [][NextStageAll]_vars /\ WF_<<pc, stageCursor>>(StageAllAdvance)

(***************************************************************************)
(* Properties                                                              *)
(***************************************************************************)
IsPrefix(a, b) == Len(a) <= Len(b) /\ SubSeq(b, 1, Len(a)) = a

\* C4: append-only invariant.  After any sequence of append_entity calls the
\* lines a persisted file had before the sequence (header and data rows) are
\* still there, unchanged and in order, as a prefix of the file.
C4_AppendOnlyPrefix ==
    \A e \in DOMAIN data :
        (mode = "append" /\ data0[e].exists) => IsPrefix(data0[e].lines, data[e].lines)

C6_AppendColumnSafety ==
    \A e \in DOMAIN appendResults :
        (appendResults[e].error = "" /\ preFile[e].exists /\ Len(preFile[e].lines) > 0)
        => LET H == preFile[e].lines[1]
               R == Len(DictRows(preFile[e]))
               srows == DictRows(staging[e])
               N == Len(srows)
               SH == Range(CsvHeader(staging[e]))
           IN  /\ CsvHeader(data[e]) = H
               /\ Len(DictRows(data[e])) = R + N
               /\ Len(data[e].lines) = Len(preFile[e].lines) + N
               /\ \A i \in 1..N :
                     LET line == data[e].lines[Len(preFile[e].lines) + i]
                     IN  /\ Len(line) = Len(H)
                         /\ \A j \in 1..Len(H) :
                               line[j] = IF H[j] \in SH THEN srows[i][H[j]] ELSE ""

\* C8: topological soundness.  For every pair (A, B) with A depending on B
\* and A, B not on a common dependency cycle, B comes before A in the order
\* topo_sort returns.
C8_TopoSound ==
    pc = "topo_done" =>
        \A a, b \in TopoNodes(deps) :
            (DependsOn(deps, a, b) /\ ~OnCommonCycle(deps, a, b))
                => Position(order, b) < Position(order, a)


\* the key of a row under the columns of a constraint, trimmed and upper-cased
NormKey(row, cols) == [i \in DOMAIN cols |-> Upper(Strip(Get(row, cols[i], "")))]
CompleteKey(row, cols) == \A i \in DOMAIN cols : Strip(Get(row, cols[i], "")) # ""

\* C7: when transform_entity returns, for every declared unique constraint no
\* two rows among the persisted rows and the accepted rows, at least one of
\* them accepted in this staging, have all constraint columns non-blank and
\* equal after trimming and upper-casing.
C7_UniquenessEnforced ==
    (mode = "entity" /\ pc = "entity_done") =>
        LET old == DictRows(data[ent])
            all == old \o loop.valid
            ucs == Schema(ent).uniqueConstraints
        IN  \A k \in DOMAIN ucs : \A i \in DOMAIN all : \A j \in DOMAIN all :
                (i < j /\ j > Len(old)) =>
                    ~ /\ CompleteKey(all[i], ucs[k].columns)
                      /\ CompleteKey(all[j], ucs[k].columns)
                      /\ NormKey(all[i], ucs[k].columns) = NormKey(all[j], ucs[k].columns)

\* a service-order sheet of which one row was accepted and another one was
\* turned down for colliding on SO_NUMBER with a row spelled differently
C7_Witness ==
    /\ mode = "entity" /\ pc = "entity_done" /\ ent = "SERVICEORDERS"
    /\ Len(loop.valid) >= 1
    /\ \E i \in DOMAIN loop.errors :
          /\ loop.errors[i].errors = <<Err("Skipped due to duplicate", "")>>
          /\ \E j \in DOMAIN loop.allRows :
                loop.allRows[j]["SO_NUMBER"] # Strip(excel[loop.errors[i].row_num]["SO Number"])

\* C9: when the source row carries a non-blank value under the foreign key's
\* own column name, the foreign key of the row transform_row produces is that
\* value, trimmed, and no natural-key lookup is made for it.
C9_PassthroughPrecedence ==
    (mode = "entity" /\ lastRow.called) =>
        \A i \in DOMAIN sheetConfig.lookups :
            LET l == sheetConfig.lookups[i]
                src == lastRow.excelRow
            IN  (l.fk \in DOMAIN src /\ ~IsBlank(src[l.fk])) =>
                    /\ lastRow.resolved[l.fk] = Strip(src[l.fk])
                    /\ lastRow.row[l.fk] = Strip(src[l.fk])
                    /\ l.entity \notin lastRow.looked

\* ---- the commands of main ----
StageAllDone == pc \in {"staged", "confirm", "append_loop", "append_done", "exit"}
NoBackups == \A e \in DOMAIN backups : backups[e] = NoFile

\* C1: in commit, once stage_all has returned results in which some entity
\* has error_count > 0, no persisted file differs from what it was at the
\* start, no backup exists, and append_all is never reached.
C1_StrictCommitGate ==
    (/\ mode = "pipeline" /\ command = "commit" /\ StageAllDone
     /\ \E e \in DOMAIN stageResults : stageResults[e].error_count > 0)
    => /\ data = data0
       /\ NoBackups
       /\ pc \in {"staged", "exit"}
       /\ invocations = 0 /\ appendResults = <<>>

\* commit ended on the gate although there were valid rows to append
C1_Witness ==
    /\ mode = "pipeline" /\ command = "commit" /\ pc = "exit"
    /\ outcome = "aborted_errors"
    /\ \E e \in DOMAIN stageResults : stageResults[e].error_count > 0
    /\ \E e \in DOMAIN stageResults : stageResults[e].valid_count > 0

\* C2: under the stage command, and during the staging passes of every
\* command, every persisted file is what it was at the start and no backup
\* is made, whatever the number of passes and of errors.
C2_StageLeavesPersisted ==
    (mode = "pipeline" /\ (command = "stage" \/ pc \in {"pass1", "warm_head", "warm_pass", "staged"}))
    => (data = data0 /\ NoBackups)

\* stage ended after a warm pass with errors left and staged files written
C2_Witness ==
    /\ mode = "pipeline" /\ command = "stage" /\ pc = "exit"
    /\ passNum >= 2 /\ useStaging
    /\ \E e \in DOMAIN stageResults : stageResults[e].error_count > 0
    /\ \E e \in DOMAIN stageResults : stageResults[e].staged_file /\ staging[e].exists

\* the entities append_all has touched so far
Touched(e) == data[e] # data0[e] \/ backups[e] # NoFile \/ e \in DOMAIN appendResults

\* C3: in commit-partial, every entity whose persisted file is appended to
\* has error_count = 0 and valid_count > 0 in the final staging results, and
\* the persisted file of every entity with error_count > 0 stays as it was.
C3_PartialCommitSubset ==
    (mode = "pipeline" /\ command = "commit-partial" /\ StageAllDone)
    => \A e \in DOMAIN stageResults :
          /\ Touched(e) =>
                (stageResults[e].error_count = 0 /\ stageResults[e].valid_count > 0)
          /\ stageResults[e].error_count > 0 => (data[e] = data0[e] /\ ~Touched(e))

\* a partial commit completed: one entity was appended to, another one had
\* both valid rows and errors and was left alone
C3_Witness ==
    /\ mode = "pipeline" /\ command = "commit-partial" /\ pc = "exit"
    /\ outcome = "completed"
    /\ \E e \in DOMAIN stageResults : data[e] # data0[e]
    /\ \E e \in DOMAIN stageResults :
          stageResults[e].error_count > 0 /\ stageResults[e].valid_count > 0

\* ---- foreign keys across passes ----
\* the sheet column a lookup of entity e takes its natural key from
FromColumn(e) == SheetConfig(e).lookups[1].match[1].from
TargetOf(e) == SheetConfig(e).lookups[1].entity
TargetField(e) == SheetConfig(e).lookups[1].match[1].field
FkOf(e) == SheetConfig(e).lookups[1].fk
KeyColumn(e) == SheetConfig(e).columnMap[1][1]

\* row n of the sheet is one transform_row is called for when e is staged
Transformed(e, n) ==
    /\ ~IsBlank(excel[n][KeyColumn(e)])
    /\ \A m \in 1..(n - 1) :
          Lower(Strip(excel[m][KeyColumn(e)])) # Lower(Strip(excel[n][KeyColumn(e)]))

\* the rows of a file whose natural key is the one row n refers to
Referred(e, n, file) ==
    {r \in Range(DictRows(file)) :
        Upper(Strip(r[TargetField(e)])) = Upper(Strip(excel[n][FromColumn(e)]))}

FkErrorRows(result) ==
    {result.errors[i].row_num : i \in {j \in DOMAIN result.errors :
        \E k \in DOMAIN result.errors[j].errors : IsFkError(result.errors[j].errors[k])}}

\* every row names the cluster of its location and the location of its plot
AllKeysPresent ==
    \A n \in DOMAIN excel :
        /\ ~IsBlank(excel[n]["Location"]) => ~IsBlank(excel[n]["Cluster"])
        /\ ~IsBlank(excel[n]["Plot No"]) => ~IsBlank(excel[n]["Location"])

Referencing == {e \in PipeEnts : SheetConfig(e).lookups # <<>>}

\* C10: pass 1 runs without the staging directory, and a row whose natural
\* key matches no persisted target row has an FK error at the end of pass 1;
\* when every referenced natural key is in the batch, stage_all ends with no
\* error after at most the second pass (pass_num is then at most 3: it is
\* incremented when pass 2 improved), and every staged foreign key is the
\* identifier of a persisted or staged target row.
C10_SameRunVisibility ==
    mode = "pipeline" =>
        /\ pc = "pass1" => ~useStaging
        /\ pass1Results # <<>> =>
              \A e \in Referencing : \A n \in DOMAIN excel :
                  (Transformed(e, n) /\ Referred(e, n, data0[TargetOf(e)]) = {})
                  => n \in FkErrorRows(pass1Results[e])
        /\ (StageAllDone /\ AllKeysPresent) =>
              /\ passNum <= 3
              /\ \A e \in PipeEnts : stageResults[e].error_count = 0
              /\ \A e \in Referencing :
                    stageResults[e].staged_file =>
                        \A r \in Range(DictRows(staging[e])) :
                            \E t \in Range(LoadEntityData(TargetOf(e), TRUE)) : t.ID = r[FkOf(e)]

\* a location failed in pass 1 for want of its cluster, which the run staged;
\* after pass 2 it is staged with the identifier of the staged cluster row,
\* and so is the plot with the location's
C10_Witness ==
    /\ mode = "pipeline" /\ pc = "staged" /\ passNum = 3 /\ AllKeysPresent
    /\ FkErrorRows(pass1Results["LOCATIONS"]) # {}
    /\ FkErrorRows(pass1Results["PLOTS"]) # {}
    /\ \A e \in PipeEnts : stageResults[e].error_count = 0
    /\ \E r \in Range(DictRows(staging["LOCATIONS"])) :
          \E t \in Range(DictRows(staging["CLUSTERS"])) : t.ID = r.CLUSTER_ID
    /\ \E r \in Range(DictRows(staging["PLOTS"])) :
          \E t \in Range(DictRows(staging["LOCATIONS"])) : t.ID = r.LOCATION_ID

\* ---- the passes of stage_all ----
NoDuplicates(seq) == \A i, j \in DOMAIN seq : seq[i] = seq[j] => i = j

\* the ways stage_all leaves its loop, each with the condition it was left on
EndedAsLogged ==
    /\ stageLog.ending \in {"converged", "no_improvement", "exhausted"}
    /\ stageLog.ending = "converged" =>
          (passNum <= MaxPasses /\ EntitiesWithFkErrors(stageResults) = <<>>)
    /\ stageLog.ending = "no_improvement" =>
          /\ Len(stageLog.passes) >= 2 /\ passNum <= MaxPasses
          /\ retry # <<>>
          /\ TotalErrorsOf(stageResults, retry) >= errorsBefore
    /\ stageLog.ending = "exhausted" =>
          (passNum = MaxPasses + 1 /\ Len(stageLog.passes) = MaxPasses)

Staging == pc \in {"pass1", "warm_head", "warm_pass", "staged"}

\* the persisted file of e holds a row for every natural key of the sheet
AllKeysStored(e) ==
    \A n \in DOMAIN excel :
        \/ IsBlank(excel[n][KeyColumn(e)])
        \/ \E r \in Range(DictRows(data[e])) :
              StoreKey(r, GetDedupKeys(e)) = <<Upper(Strip(excel[n][KeyColumn(e)]))>>

\* C12: staging a sheet whose natural keys all have a row in the persisted
\* file of a deduplicated entity stages no row of that entity; in particular
\* after a commit appended an entity's staged rows without error, staging
\* the same sheet again stages no row of that entity.
C12_MasterIdempotence ==
    (mode = "pipeline" /\ Staging) =>
        \A e \in DOMAIN stageResults :
            /\ (ShouldDeduplicate(e) /\ AllKeysStored(e)) => stageResults[e].valid_count = 0
            /\ (/\ ShouldDeduplicate(e) /\ runs = 2
                /\ e \in DOMAIN appendResults /\ appendResults[e].error = "")
               => stageResults[e].valid_count = 0

\* ---- the order topo_sort returns ----
\* the nodes not yet emitted whose dependencies have all been emitted
Ready(d, emitted) ==
    {n \in TopoNodes(d) \ emitted : (IF n \in DOMAIN d THEN d[n] ELSE {}) \subseteq emitted}
Emitted(ord, i) == {ord[j] : j \in 1..i}
LexLeast(set, n) == n \in set /\ \A m \in set : LexRank(n) <= LexRank(m)
Ascending(seq) == \A i, j \in DOMAIN seq : i < j => LexRank(seq[i]) < LexRank(seq[j])

\* the first k nodes of ord are emitted smallest-ready-first, after them no
\* node is ready, and the rest is in ascending order
EmittedThenCycles(d, ord, k) ==
    /\ \A i \in 1..k : LexLeast(Ready(d, Emitted(ord, i - 1)), ord[i])
    /\ Ready(d, Emitted(ord, k)) = {}
    /\ Ascending(SubSeq(ord, k + 1, Len(ord)))

\* C13: the order topo_sort returns is determined by the graph: it holds
\* every node exactly once; each resolved node is the lexically smallest of
\* the nodes whose dependencies had all been emitted; the nodes that never
\* become ready follow the resolved ones in ascending lexical order.  While
\* the loop runs, S is the sorted list of the ready nodes.
C13_TopoDeterministic ==
    /\ pc = "topo_loop" =>
          (S = SortedList(Ready(deps, Range(order))) /\ NoDuplicates(order))
    /\ pc = "topo_done" =>
          /\ Range(order) = TopoNodes(deps)
          /\ Len(order) = Cardinality(TopoNodes(deps))
          /\ \E k \in 0..Len(order) : EmittedThenCycles(deps, order, k)

\* a graph with a resolved node and a cycle whose members were appended
C13_Witness ==
    /\ pc = "topo_done"
    /\ \E k \in 1..Len(order) :
          EmittedThenCycles(deps, order, k) /\ Len(order) - k >= 2

\* ---- lookup_id ----
\* the source row has a non-blank value for the rule's column
HasValue(rule, rowValues) ==
    rule.from \in DOMAIN rowValues /\ ~IsBlank(rowValues[rule.from])

\* the target row agrees with the source row on the rule: identifiers
\* exactly, natural keys without regard to case, both trimmed
RuleHolds(rule, csvRow, rowValues) ==
    /\ HasValue(rule, rowValues)
    /\ IF EndsWithId(rule.field)
       THEN Strip(csvRow[rule.field]) = Strip(rowValues[rule.from])
       ELSE Upper(Strip(csvRow[rule.field])) = Upper(Strip(rowValues[rule.from]))

\* the rows of the target entity as the files hold them
TargetRowsOnDisk ==
    DictRows(data[LookupTarget])
    \o (IF useStaging THEN DictRows(staging[LookupTarget]) ELSE <<>>)

\* C14: lookup_id returns absent when some rule of the list finds no
\* non-blank value in the source row; an identifier it returns is that of
\* a target row that agrees with the source row on every rule of the list.
C14_AllRulesMatch ==
    (mode = "lookup" /\ pc = "lookup_done") =>
        LET match == sheetConfig.match
            src == excel[1]
        IN  /\ (\E i \in DOMAIN match : ~HasValue(match[i], src)) => lastRow.result = ""
            /\ lastRow.result # "" =>
                  \E r \in Range(TargetRowsOnDisk) :
                      /\ r.ID = lastRow.result
                      /\ \A i \in DOMAIN match : RuleHolds(match[i], r, src)

\* the indices of the rows that satisfy the criteria of the call
Matching(rows) ==
    IF Criteria(sheetConfig.match, excel[1]) = {} THEN {}
    ELSE {i \in DOMAIN rows : RowMatches(rows[i], sheetConfig.match, excel[1])}
First(set) == CHOOSE i \in set : \A j \in set : i <= j

\* C15: lookup_id returns the ID of the first matching row in load order,
\* the persisted rows before the staged ones: when a persisted row matches,
\* the result is the ID of the first matching persisted row whatever the
\* staged file holds; otherwise that of the first matching staged row;
\* absent when no row matches.
C15_FirstMatchInLoadOrder ==
    (mode = "lookup" /\ pc = "lookup_done") =>
        LET persisted == DictRows(data[LookupTarget])
            staged == IF useStaging THEN DictRows(staging[LookupTarget]) ELSE <<>>
        IN  IF Matching(persisted) # {}
            THEN lastRow.result = persisted[First(Matching(persisted))].ID
            ELSE IF Matching(staged) # {}
            THEN lastRow.result = staged[First(Matching(staged))].ID
            ELSE lastRow.result = ""

\* two persisted rows and a staged row match; the result is the ID of the
\* first persisted one
C15_Witness ==
    /\ mode = "lookup" /\ pc = "lookup_done" /\ useStaging
    /\ Cardinality(Matching(DictRows(data[LookupTarget]))) = 2
    /\ Matching(DictRows(staging[LookupTarget])) # {}
    /\ DictRows(data[LookupTarget])[1].ID # DictRows(data[LookupTarget])[2].ID
    /\ lastRow.result = DictRows(data[LookupTarget])[1].ID

\* ---- required and optional foreign keys ----
HasErr(errors, kind, field) == \E i \in DOMAIN errors : errors[i] = Err(kind, field)

\* C16: for every lookup of the sheet configuration, a foreign key that is
\* not flagged optional and is blank after resolution makes transform_row
\* reject the row with a 'Could not resolve FK' error for it, so no accepted
\* row has a blank required foreign key; an optional foreign key that was
\* not resolved is left blank and brings no error.
C16_RequiredForeignKeys ==
    mode = "entity" =>
        \A i \in DOMAIN sheetConfig.lookups :
            LET l == sheetConfig.lookups[i]
            IN  /\ lastRow.called =>
                      /\ (~l.optional /\ IsBlank(lastRow.row[l.fk])) =>
                            (~lastRow.ok /\ HasErr(lastRow.errors, "Could not resolve FK", l.fk))
                      /\ (l.optional /\ lastRow.resolved[l.fk] = "") =>
                            /\ IsBlank(lastRow.row[l.fk])
                            /\ ~HasErr(lastRow.errors, "Could not resolve FK", l.fk)
                /\ pc \in {"entity_loop", "entity_done"} =>
                      \A k \in DOMAIN loop.valid :
                          ~l.optional => ~IsBlank(loop.valid[k][l.fk])

\* a service order was accepted with its vendor resolved, and the next row,
\* naming no vendor, was rejected for its required foreign key alone
C16_Witness ==
    /\ mode = "entity" /\ ent = "SERVICEORDERS" /\ lastRow.called
    /\ ~sheetConfig.lookups[1].optional
    /\ Len(loop.valid) = 1 /\ loop.valid[1]["VENDOR_ID"] = "K2"
    /\ ~lastRow.ok /\ lastRow.errors = <<Err("Could not resolve FK", "VENDOR_ID")>>
    /\ Len(loop.errors) = 1 /\ loop.errors[1].row_num = 2

\* the records transform_entity wrote for rows it skipped as duplicates
InfoRecords(records) ==
    {i \in DOMAIN records : records[i].errors = <<Err("Skipped due to duplicate", "")>>}

\* C17: a row that fails with unique-constraint errors only, for an entity
\* whose duplicate policy is 'skip', is recorded as information and does not
\* count as an error: the error_count of the entity's staging result, which
\* the strict commit sums and commit-partial tests against zero, is the
\* number of its other records.
C17_DuplicateSkipNotCounted ==
    (mode = "entity" /\ pc = "entity_done" /\ GetDuplicatePolicy(ent) = "skip") =>
        StageResult(loop).error_count
            = Len(loop.errors) - Cardinality(InfoRecords(loop.errors))

\* C18: a row transform_row turned down with at least one violation that is
\* not a unique-constraint violation adds exactly one error record, with the
\* row's 1-based number and all the violations transform_row found, adds
\* nothing to the valid rows, and the loop goes on to the next row.
C18_OneRecordPerFailedRow ==
    [][(/\ mode = "entity" /\ pc = "entity_loop" /\ rowNum' = rowNum + 1
        /\ lastRow'.called /\ ~lastRow'.ok
        /\ \E i \in DOMAIN lastRow'.errors : ~IsUniqueError(lastRow'.errors[i]))
       => /\ loop'.errors = Append(loop.errors,
                                   [row_num |-> rowNum, errors |-> lastRow'.errors])
          /\ loop'.valid = loop.valid
          /\ pc' = "entity_loop"]_vars

\* the natural key of a source row of the vendor sheet, trimmed, without case
VendorKey(excelRow) == Lower(Strip(excelRow["Vendor Code"]))

RecordsOf(n) == {i \in DOMAIN loop.errors : loop.errors[i].row_num = n}

\* C19: in one batch of a deduplicated entity at most one row is staged for a
\* natural key, a row whose key was met earlier in the batch leaves no error
\* record, and a row with a blank key is dropped without an error record;
\* for an entity that is not deduplicated transform_row is called on every
\* source row.
C19_BatchDeduplication ==
    (mode = "entity" /\ pc \in {"entity_loop", "entity_done"}) =>
        /\ ent = "VENDORS" =>
              /\ \A i \in DOMAIN loop.valid : \A j \in DOMAIN loop.valid :
                    i # j => Lower(Strip(loop.valid[i]["CODE"]))
                                 # Lower(Strip(loop.valid[j]["CODE"]))
              /\ Len(loop.valid) <= Cardinality({VendorKey(excel[n]) : n \in 1..(rowNum - 1)})
              /\ \A n \in 1..(rowNum - 1) :
                    /\ VendorKey(excel[n]) = "" => RecordsOf(n) = {}
                    /\ (\E m \in 1..(n - 1) : VendorKey(excel[m]) = VendorKey(excel[n]))
                          => RecordsOf(n) = {}
        /\ (~ShouldDeduplicate(ent) /\ rowNum > 1) =>
              /\ lastRow.called
              /\ lastRow.excelRow = excel[rowNum - 1]

\* two vendor rows spell the same code differently: the first one is staged,
\* transform_row is not called for the second and nothing is recorded for it
C19_Witness ==
    /\ mode = "entity" /\ pc = "entity_done" /\ ent = "VENDORS"
    /\ Len(excel) = 2
    /\ excel[1]["Vendor Code"] = "a" /\ excel[2]["Vendor Code"] = " a"
    /\ Len(loop.valid) = 1 /\ loop.valid[1]["CODE"] = "a"
    /\ loop.errors = <<>>
    /\ ~lastRow.called

\* the calls of append_entity itself: append_all's own 'No valid rows'
\* result and the missing staged file end before the backup step
ReachedBackupStep(e) ==
    appendResults[e].error \in {"", "Failed to append"}

\* C20: when append_entity has run on a target that existed before the call,
\* the backup directory holds a copy of the target as it was before the call
\* (also when the call failed before its first write), so whenever the call
\* changed the target the backup has the content from before the append; a
\* successful result reports the backup.
C20_BackupPrecedesMutation ==
    \A e \in DOMAIN appendResults :
        /\ (preFile[e].exists /\ ReachedBackupStep(e)) => backups[e] = preFile[e]
        /\ (preFile[e].exists /\ data[e] # preFile[e]) =>
              (backups[e] = preFile[e] /\ backups[e].exists)
        /\ (preFile[e].exists /\ appendResults[e].error = "") => appendResults[e].backup

\* an existing CLUSTERS file with a data row got staged rows appended: the
\* result is a success that reports the backup, and the backup is the file
\* from before the call
C20_Witness ==
    /\ mode = "append" /\ "CLUSTERS" \in DOMAIN appendResults
    /\ appendResults["CLUSTERS"].error = ""
    /\ appendResults["CLUSTERS"].appended >= 1
    /\ appendResults["CLUSTERS"].backup
    /\ preFile["CLUSTERS"].exists /\ Len(preFile["CLUSTERS"].lines) = 2
    /\ data["CLUSTERS"] # preFile["CLUSTERS"]
    /\ backups["CLUSTERS"] = preFile["CLUSTERS"]

\* C30: when the target did not exist before append_entity and the write
\* raised, the target does not exist after the error result; when the write
\* went through, the new file has the staged file's header and exactly the
\* staged rows.
C30_NoPartialNewFile ==
    \A e \in DOMAIN appendResults :
        ~preFile[e].exists =>
            /\ appendResults[e].error = "Failed to append" => ~data[e].exists
            /\ (appendResults[e].error = "" /\ staging[e].exists) =>
                  /\ CsvHeader(data[e]) = CsvHeader(staging[e])
                  /\ DictRows(data[e]) = DictRows(staging[e])

\* the results of the append_entity calls that did not succeed
FailedCalls(ar) ==
    {e \in DOMAIN ar : ar[e].error \in {"Failed to append", "Staged file not found"}}

\* C29: a strict commit that passed the gate and was confirmed, and in which
\* no call of append_entity failed, ends as completed; an entity staged with
\* no valid rows and no errors does not make it end as failed.
C29_CommitCompletes ==
    (/\ mode = "pipeline" /\ pc = "exit" /\ command = "commit"
     /\ outcome \in {"completed", "failed"}
     /\ FailedCalls(appendResults) = {})
    => outcome = "completed"

\* C22: once stage_entity has staged an entity, the entity's staging file
\* holds the valid rows of that latest staging and nothing else: as many
\* rows as the result's valid_count, and none when the staging produced no
\* valid row.
C22_StagingFileReplaced ==
    mode = "pipeline" =>
        \A e \in DOMAIN stageResults :
            /\ Len(DictRows(staging[e])) = stageResults[e].valid_count
            /\ stageResults[e].valid_count = 0 => DictRows(staging[e]) = <<>>

\* the entities whose error records hold a 'Could not resolve FK' error
WithFkErrors(res) ==
    {e \in DOMAIN res : \E i \in DOMAIN res[e].errors :
        \E j \in DOMAIN res[e].errors[i].errors :
            res[e].errors[i].errors[j].kind = "Could not resolve FK"}

InIngestionOrder(seq) ==
    \A i \in DOMAIN seq : \A j \in DOMAIN seq :
        i < j => IndexOf(IngestionOrder, seq[i]) < IndexOf(IngestionOrder, seq[j])

LastPass == stageLog.passes[Len(stageLog.passes)]

\* C23: a warm pass starts only when some entity has a foreign-key error;
\* the entities it re-stages are exactly the entities that had one when the
\* pass started, in ingestion order, and the pass changes the staging result
\* and the staging file of no other entity.
C23_WarmPassFrame ==
    [][/\ (pc = "warm_head" /\ pc' = "warm_pass") =>
              /\ WithFkErrors(stageResults) # {}
              /\ Range(retry') = WithFkErrors(stageResults)
              /\ Len(retry') = Cardinality(WithFkErrors(stageResults))
              /\ InIngestionOrder(retry')
       /\ (pc = "warm_head" /\ WithFkErrors(stageResults) = {}) => pc' # "warm_pass"
       /\ pc = "warm_pass" =>
              /\ \A e \in PipeEnts :
                    (stageResults'[e] # stageResults[e] \/ staging'[e] # staging[e])
                        => (stageCursor <= Len(retry) /\ e = retry[stageCursor])
              /\ stageLog'.passes # stageLog.passes => LastPass' = SubSeq(retry, 1, stageCursor)
              /\ pc' # "warm_pass" => LastPass = retry]_vars

\* stage_all returned after a warm pass that re-staged LOCATIONS and PLOTS,
\* in this order, and left the result of CLUSTERS from pass 1
C23_Witness ==
    /\ mode = "pipeline" /\ pc = "staged"
    /\ Len(stageLog.passes) >= 2
    /\ stageLog.passes[2] = <<"LOCATIONS", "PLOTS">>
    /\ stageResults["CLUSTERS"] = pass1Results["CLUSTERS"]
    /\ stageResults["CLUSTERS"].valid_count = 1
    /\ stageResults["PLOTS"] # pass1Results["PLOTS"]

\* the sum of the error counts of a set of entities
ErrorSum(res, ents) ==
    SumOver(res, SelectSeq(IngestionOrder, LAMBDA e : e \in ents), "error_count")

\* the end of a warm pass: without improvement stage_all is over, with
\* improvement the pass counter goes up and the loop head is reached again;
\* once stage_all has returned nothing is staged any more
PassEndRule ==
    /\ (pc = "warm_head" /\ pc' = "warm_pass") =>
          errorsBefore' = ErrorSum(stageResults, WithFkErrors(stageResults))
    /\ (pc = "warm_pass" /\ pc' # "warm_pass") =>
          IF ErrorSum(stageResults, Range(retry)) >= errorsBefore
          THEN pc' = "staged"
          ELSE pc' = "warm_head" /\ passNum' = passNum + 1
    /\ pc = "staged" => (pc' \notin {"pass1", "warm_head", "warm_pass"}
                         /\ stageLog' = stageLog)

AfterImprovement == pc = "warm_head" /\ Len(stageLog.passes) >= 2 /\ passNum <= MaxPasses

\* C24: a warm pass whose retried entities have as many errors after it as
\* before it, or more, is the last one; after a pass that lowered the sum,
\* with the pass bound not reached, the next pass is started.
C24_NoImprovementStops ==
    [][PassEndRule /\ (AfterImprovement => pc' = "warm_pass")]_vars

\* C24, amended: after a pass that lowered the sum, with the pass bound not
\* reached, the next pass is started when some entity still has a
\* foreign-key error, and stage_all returns when none has.
C24_NextPassWhenFkErrorsRemain ==
    [][PassEndRule
       /\ (AfterImprovement =>
              IF WithFkErrors(stageResults) # {} THEN pc' = "warm_pass"
              ELSE pc' = "staged")]_vars

\* pass 2 lowered the errors and left a foreign-key error, pass 3 was run
\* and brought no improvement, and stage_all returned
C24_Witness ==
    /\ mode = "pipeline" /\ pc = "staged"
    /\ Len(stageLog.passes) = 3 /\ stageLog.passes[3] # <<>>
    /\ stageLog.ending = "no_improvement"
    /\ passNum = 3

\* the lookups of the sheet configurations: foreign key and target entity
FkTargets(e) == {<<SheetConfig(e).lookups[i].fk, SheetConfig(e).lookups[i].entity>> :
                    i \in DOMAIN SheetConfig(e).lookups}

KeysOf(f) == {DictRows(f)[i]["ID"] : i \in DOMAIN DictRows(f)}

\* C28: when stage_all returns, every foreign key that a row staged in this
\* run got from a lookup is the key of a row of the target entity's
\* persisted file or of its staging file as the run leaves it.
C28_StagedReferencesValid ==
    (mode = "pipeline" /\ pc = "staged") =>
        \A e \in DOMAIN stageResults :
            stageResults[e].valid_count > 0 =>
                \A i \in DOMAIN DictRows(staging[e]) : \A l \in FkTargets(e) :
                    DictRows(staging[e])[i][l[1]] # "" =>
                        DictRows(staging[e])[i][l[1]]
                            \in KeysOf(data[l[2]]) \cup KeysOf(staging[l[2]])

\* the entity blocks of the schema text, by name: the last block of a name
LastBlock(name) ==
    CHOOSE p \in DOMAIN content :
        /\ content[p].kind = "entity" /\ content[p].name = name
        /\ \A q \in DOMAIN content :
              (content[q].kind = "entity" /\ content[q].name = name) => q <= p
KnownEntities == {content[p].name : p \in {q \in DOMAIN content : content[q].kind = "entity"}}

\* the entities a block refers to: by an association, or by a UUID field
\* <X>_ID together with the association X
RefersTo(block, b) ==
    \/ \E i \in DOMAIN block.associations : block.associations[i].target = b
    \/ \E k \in DOMAIN block.fields : \E i \in DOMAIN block.associations :
          /\ block.fields[k].name = "PARENT_ID" /\ block.fields[k].type = "UUID"
          /\ block.associations[i].name = "PARENT"
          /\ block.associations[i].target = b

\* C25: build_dependencies has an edge A -> B exactly when B is a known
\* entity other than A that A refers to by an association or by an
\* identifier field; targets that are not known entities are in no edge and
\* so are not among the nodes topo_sort orders.
C25_DependencyEdges ==
    (mode = "cds" /\ pc = "cds_done") =>
        /\ DOMAIN deps = KnownEntities
        /\ \A a \in KnownEntities : \A b \in {"A", "B", "X"} :
              b \in deps[a] <=>
                  (b \in KnownEntities /\ b # a /\ RefersTo(content[LastBlock(a)], b))
        /\ TopoNodes(deps) \subseteq KnownEntities

\* the annotations written between the previous entity block and block p
OwnAnnotations(p) ==
    {q \in 1..(p - 1) :
        /\ content[q].kind = "unique"
        /\ \A r \in (q + 1)..(p - 1) : content[r].kind # "entity"}

\* C26: parse_cds gives an entity the constraints of the annotation written
\* before it and after the previous entity, and an empty list of unique
\* constraints when there is no such annotation.
C26_UniqueAttachedToNextEntity ==
    (mode = "cds" /\ pc \in {"cds_deps", "cds_done"}) =>
        \A name \in KnownEntities :
            parsed[name].uniqueConstraints =
                IF OwnAnnotations(LastBlock(name)) = {} THEN <<>>
                ELSE content[CHOOSE q \in OwnAnnotations(LastBlock(name)) :
                                \A r \in OwnAnnotations(LastBlock(name)) : r <= q].constraints

\* C21: key uniqueness: when transform_entity has returned, no two of the
\* rows it staged carry the same ID, and none carries the ID of a row of the
\* entity's persisted file (whose own IDs are unique), so that the file has
\* unique IDs after the staged rows are appended; under both id policies.
IdsOf(rows) == [i \in DOMAIN rows |-> rows[i]["ID"]]
NoRepeat(seq) == \A i, j \in DOMAIN seq : seq[i] = seq[j] => i = j
C21_KeyUniqueness ==
    (mode = "entity" /\ pc = "entity_done" /\ NoRepeat(IdsOf(DictRows(data[ent]))))
        => NoRepeat(IdsOf(DictRows(data[ent]) \o loop.valid))

\* the rows append_all wrote for entity e: the rows of its staging file
AppendedRows(e) ==
    IF e \in DOMAIN appendResults /\ appendResults[e].error = ""
    THEN DictRows(staging[e]) ELSE <<>>

\* C27: when commit or commit-partial has finished its appends, every
\* non-blank foreign key of an appended row (the sheet configurations take
\* every foreign key from a lookup) is the key of a row of the target
\* entity's persisted file: no appended row refers to a row that is only in
\* the staging file of an entity that was skipped or whose append failed.
C27_CommittedReferencesValid ==
    (mode = "pipeline" /\ pc = "append_done") =>
        \A e \in PipeEnts : \A i \in DOMAIN AppendedRows(e) : \A l \in FkTargets(e) :
            AppendedRows(e)[i][l[1]] # "" =>
                AppendedRows(e)[i][l[1]] \in KeysOf(data[l[2]])

=============================================================================
